---------------------------- MODULE Spec2Model ----------------------------
(***************************************************************************)
(* A model of the swagtris versus engine (src/src/lib.rs): the board, the  *)
(* SRS shape and kick tables, the players, the controllers and the Versus  *)
(* coordinator with its tick, its lock resolution (attack, combo,          *)
(* back-to-back, garbage) and its bot-protocol adapter.                    *)
(*                                                                         *)
(* Times are f32 milliseconds in the source; the model draws dt from       *)
(* integer milliseconds, on which the source's arithmetic is exact.  The   *)
(* fall accumulator is kept in tenths of a millisecond so that the soft    *)
(* drop factor 1.2 stays an integer (factor*10).                           *)
(* Random draws (thread_rng) are nondeterministic choices handed to the    *)
(* operators as the parameter rnd.                                         *)
(***************************************************************************)
EXTENDS Integers, Sequences, FiniteSets, TLC

(***************************************************************************)
(* Program constants.                                                      *)
(***************************************************************************)
WIDTH == 10
VISIBLE_HEIGHT == 20
BUFFER_HEIGHT == 20
TOTAL_HEIGHT == VISIBLE_HEIGHT + BUFFER_HEIGHT
LOCK_DELAY_MS == 500
MOVE_RESETS == 15
SPAWN_X == 4
QUEUE_LEN == 6
GRAVITY_MS == 1000
DEFAULT_DAS == 133
DEFAULT_ARR == 10
GARBAGE == 8

Tetrominoes == <<"I", "J", "L", "O", "S", "Z", "T">>
Pieces == {Tetrominoes[i] : i \in 1..7}
Rotations == {"Spawn", "Right", "Reverse", "Left"}

color_id(piece) ==
  CASE piece = "I" -> 1
    [] piece = "J" -> 2
    [] piece = "L" -> 3
    [] piece = "O" -> 4
    [] piece = "S" -> 5
    [] piece = "Z" -> 6
    [] piece = "T" -> 7

rotate_cw(r) ==
  CASE r = "Spawn" -> "Right"
    [] r = "Right" -> "Reverse"
    [] r = "Reverse" -> "Left"
    [] r = "Left" -> "Spawn"

rotate_ccw(r) ==
  CASE r = "Spawn" -> "Left"
    [] r = "Left" -> "Reverse"
    [] r = "Reverse" -> "Right"
    [] r = "Right" -> "Spawn"

\* tbp orientation tags -> Rotation
from_tbp_orientation(o) ==
  CASE o = "North" -> "Spawn"
    [] o = "East" -> "Right"
    [] o = "South" -> "Reverse"
    [] o = "West" -> "Left"

\* u32::saturating_add and saturating_sub.  The counters of a bounded run stay
\* far below 2^32 - 1, where the sum saturates.
SatAdd(a, b) == a + b
SatSub(a, b) == IF a < b THEN 0 ELSE a - b
Max(a, b) == IF a >= b THEN a ELSE b
Min(a, b) == IF a <= b THEN a ELSE b

\* Binds the value of an expression: F is applied to val, which is evaluated
\* once.
Let(val, F(_)) == CHOOSE r \in {F(b) : b \in {c \in {val} : c = c}} : TRUE

(***************************************************************************)
(* Shape tables.  A point is <<x, y>>; a shape is a sequence of 4 points.  *)
(***************************************************************************)
\* rotate_point with the quarter turns exchanged.
rotate_point_mirrored(p, rot) ==
  CASE rot = "Spawn" -> p
    [] rot = "Right" -> <<-p[2], p[1]>>
    [] rot = "Reverse" -> <<-p[1], -p[2]>>
    [] rot = "Left" -> <<p[2], -p[1]>>

rotate_point(p, rot) ==
  CASE rot = "Spawn" -> p
    [] rot = "Right" -> <<p[2], -p[1]>>
    [] rot = "Reverse" -> <<-p[1], -p[2]>>
    [] rot = "Left" -> <<-p[2], p[1]>>

base_shape(piece) ==
  CASE piece = "T" -> << <<-1, 0>>, <<0, 0>>, <<1, 0>>, <<0, 1>> >>
    [] piece = "J" -> << <<-1, 0>>, <<0, 0>>, <<1, 0>>, <<-1, 1>> >>
    [] piece = "L" -> << <<-1, 0>>, <<0, 0>>, <<1, 0>>, <<1, 1>> >>
    [] piece = "S" -> << <<-1, 0>>, <<0, 0>>, <<0, 1>>, <<1, 1>> >>
    [] piece = "Z" -> << <<-1, 1>>, <<0, 1>>, <<0, 0>>, <<1, 0>> >>

shape_blocks(piece, rotation) ==
  IF piece = "I" THEN
    CASE rotation = "Spawn" -> << <<-1, 0>>, <<0, 0>>, <<1, 0>>, <<2, 0>> >>
      [] rotation = "Right" -> << <<1, 1>>, <<1, 0>>, <<1, -1>>, <<1, -2>> >>
      [] rotation = "Reverse" -> << <<-1, -1>>, <<0, -1>>, <<1, -1>>, <<2, -1>> >>
      [] rotation = "Left" -> << <<0, 1>>, <<0, 0>>, <<0, -1>>, <<0, -2>> >>
  ELSE IF piece = "O" THEN
    CASE rotation = "Spawn" -> << <<0, 0>>, <<1, 0>>, <<0, 1>>, <<1, 1>> >>
      [] rotation = "Right" -> << <<1, 0>>, <<1, 1>>, <<2, 0>>, <<2, 1>> >>
      [] rotation = "Reverse" -> << <<1, -1>>, <<2, -1>>, <<1, 0>>, <<2, 0>> >>
      [] rotation = "Left" -> << <<0, -1>>, <<1, -1>>, <<0, 0>>, <<1, 0>> >>
  ELSE [i \in 1..4 |-> rotate_point(base_shape(piece)[i], rotation)]

(***************************************************************************)
(* Kick tables.                                                            *)
(***************************************************************************)
kick_index(from, to) ==
  CASE from = "Spawn" /\ to = "Right" -> 0
    [] from = "Right" /\ to = "Spawn" -> 1
    [] from = "Right" /\ to = "Reverse" -> 2
    [] from = "Reverse" /\ to = "Right" -> 3
    [] from = "Reverse" /\ to = "Left" -> 4
    [] from = "Left" /\ to = "Reverse" -> 5
    [] from = "Left" /\ to = "Spawn" -> 6
    [] from = "Spawn" /\ to = "Left" -> 7
    [] OTHER -> 0

JLSTZ_KICKS ==
  << << <<0, 0>>, <<-1, 0>>, <<-1, 1>>, <<0, -2>>, <<-1, -2>> >>,
     << <<0, 0>>, <<1, 0>>, <<1, -1>>, <<0, 2>>, <<1, 2>> >>,
     << <<0, 0>>, <<1, 0>>, <<1, -1>>, <<0, 2>>, <<1, 2>> >>,
     << <<0, 0>>, <<-1, 0>>, <<-1, 1>>, <<0, -2>>, <<-1, -2>> >>,
     << <<0, 0>>, <<1, 0>>, <<1, 1>>, <<0, -2>>, <<1, -2>> >>,
     << <<0, 0>>, <<-1, 0>>, <<-1, -1>>, <<0, 2>>, <<-1, 2>> >>,
     << <<0, 0>>, <<-1, 0>>, <<-1, -1>>, <<0, 2>>, <<-1, 2>> >>,
     << <<0, 0>>, <<1, 0>>, <<1, 1>>, <<0, -2>>, <<1, -2>> >> >>

I_KICKS ==
  << << <<0, 0>>, <<-2, 0>>, <<1, 0>>, <<-2, -1>>, <<1, 2>> >>,
     << <<0, 0>>, <<2, 0>>, <<-1, 0>>, <<2, 1>>, <<-1, -2>> >>,
     << <<0, 0>>, <<-1, 0>>, <<2, 0>>, <<-1, 2>>, <<2, -1>> >>,
     << <<0, 0>>, <<1, 0>>, <<-2, 0>>, <<1, -2>>, <<-2, 1>> >>,
     << <<0, 0>>, <<2, 0>>, <<-1, 0>>, <<2, 1>>, <<-1, -2>> >>,
     << <<0, 0>>, <<-2, 0>>, <<1, 0>>, <<-2, -1>>, <<1, 2>> >>,
     << <<0, 0>>, <<1, 0>>, <<2, 0>>, <<1, -2>>, <<2, -1>> >>,
     << <<0, 0>>, <<-1, 0>>, <<-2, 0>>, <<-1, 2>>, <<-2, 1>> >> >>

\* KickTable::kicks reading row 0 of its table for every turn.
kicks_one_row(piece, from, to) ==
  IF piece = "I" THEN I_KICKS[1]
  ELSE IF piece = "O" THEN << <<0, 0>> >>
  ELSE JLSTZ_KICKS[1]

kicks(piece, from, to) ==
  IF piece = "I" THEN I_KICKS[kick_index(from, to) + 1]
  ELSE IF piece = "O" THEN << <<0, 0>> >>
  ELSE JLSTZ_KICKS[kick_index(from, to) + 1]

(***************************************************************************)
(* ActivePiece.                                                            *)
(***************************************************************************)
NewActivePiece(piece) ==
  [piece |-> piece, rotation |-> "Spawn", x |-> SPAWN_X,
   y |-> VISIBLE_HEIGHT - 1, lock_timer |-> LOCK_DELAY_MS,
   move_resets |-> MOVE_RESETS]

blocks(ap) == shape_blocks(ap.piece, ap.rotation)

(***************************************************************************)
(* Board: cells[y][x], y in 0..TOTAL_HEIGHT-1 (row 0 is the floor), x in   *)
(* 0..WIDTH-1; 0 is empty.                                                 *)
(***************************************************************************)
Rows == 0..(TOTAL_HEIGHT - 1)
Cols == 0..(WIDTH - 1)
EmptyRow == [x \in Cols |-> 0]
NewBoard == [y \in Rows |-> EmptyRow]

is_occupied(cells, x, y) ==
  IF x < 0 \/ x >= WIDTH THEN TRUE
  ELSE IF y < 0 THEN TRUE
  ELSE IF y >= TOTAL_HEIGHT THEN TRUE
  ELSE IF y >= VISIBLE_HEIGHT THEN FALSE
  ELSE cells[y][x] # 0

collision(cells, ap) ==
  Let(blocks(ap), LAMBDA shape :
    \E i \in 1..4 : is_occupied(cells, ap.x + shape[i][1], ap.y + shape[i][2]))

InBounds(px, py) == px >= 0 /\ px < WIDTH /\ py >= 0 /\ py < TOTAL_HEIGHT

\* Board::lock_piece: writes the in-bounds cells of the shape, in order.
board_lock_piece(cells, x, y, shape, color) ==
  [py \in Rows |->
    IF \A i \in 1..4 : py # y + shape[i][2] THEN cells[py]
    ELSE [px \in Cols |->
           IF \E i \in 1..4 : px = x + shape[i][1] /\ py = y + shape[i][2]
           THEN color ELSE cells[py][px]]]

RowFull(row) == \A x \in Cols : row[x] # 0

\* A loop that moves on to the next row after it has removed one.
RECURSIVE clear_from_skipping(_, _, _)
clear_from_skipping(cells, y, cleared) ==
  IF y >= VISIBLE_HEIGHT THEN <<cells, cleared>>
  ELSE IF RowFull(cells[y]) THEN
    clear_from_skipping([r \in Rows |->
                           IF r < y THEN cells[r]
                           ELSE IF r = TOTAL_HEIGHT - 1 THEN EmptyRow
                           ELSE cells[r + 1]],
                        y + 1, cleared + 1)
  ELSE clear_from_skipping(cells, y + 1, cleared)

\* The loop of Board::clear_lines from row y on: <<cells, cleared>>.
RECURSIVE clear_from(_, _, _)
clear_from(cells, y, cleared) ==
  IF y >= VISIBLE_HEIGHT THEN <<cells, cleared>>
  ELSE IF RowFull(cells[y]) THEN
    clear_from([r \in Rows |->
                  IF r < y THEN cells[r]
                  ELSE IF r = TOTAL_HEIGHT - 1 THEN EmptyRow
                  ELSE cells[r + 1]],
               y, cleared + 1)
  ELSE clear_from(cells, y + 1, cleared)

clear_lines(cells) == clear_from(cells, 0, 0)

RECURSIVE max_height_from(_, _)
max_height_from(cells, y) ==
  IF y < 0 THEN 0
  ELSE IF \E x \in Cols : cells[y][x] # 0 THEN y + 1
  ELSE max_height_from(cells, y - 1)

max_height(cells) == max_height_from(cells, TOTAL_HEIGHT - 1)

visible_empty(cells) ==
  \A y \in 0..(VISIBLE_HEIGHT - 1) : \A x \in Cols : cells[y][x] = 0

RECURSIVE lowest_drop_from(_, _, _, _)
lowest_drop_from(cells, x, shape, y) ==
  IF y < 0 THEN -1
  ELSE IF /\ \A i \in 1..4 : InBounds(x + shape[i][1], y + shape[i][2])
          /\ ~(\E i \in 1..4 : is_occupied(cells, x + shape[i][1], y + shape[i][2]))
       THEN y
       ELSE lowest_drop_from(cells, x, shape, y - 1)

\* Board::lowest_drop_height; -1 stands for None.
lowest_drop_height(cells, x, shape) ==
  lowest_drop_from(cells, x, shape, TOTAL_HEIGHT - 1)

GarbageRow(hole) == [x \in Cols |-> IF x = hole THEN 0 ELSE GARBAGE]

\* An add_garbage that measures the stack before it pushes the rows in.
add_garbage_measured_before(cells, lines, hole) ==
  IF lines = 0 THEN <<cells, FALSE>>
  ELSE
    <<[y \in Rows |->
         IF y < lines THEN GarbageRow(hole) ELSE cells[y - lines]],
      max_height(cells) > VISIBLE_HEIGHT>>

\* Board::add_garbage with the drawn hole column: <<cells, overflow>>.
add_garbage(cells, lines, hole) ==
  IF lines = 0 THEN <<cells, FALSE>>
  ELSE
    Let([y \in Rows |->
           IF y < lines THEN GarbageRow(hole) ELSE cells[y - lines]],
        LAMBDA out : <<out, max_height(out) > VISIBLE_HEIGHT>>)


(***************************************************************************)
(* The engine state.  The operators below take and return a record v with  *)
(* the fields of Versus (players, controllers, settings, bot_driver,       *)
(* use_internal_bot, fall_accum, stats, last_inputs) and two fields that   *)
(* exist only during one operation: rng, the random draws this operation   *)
(* will make (picks: TrueRandom draws, perms: SevenBag shuffles, holes:    *)
(* garbage hole columns, cols: the fallback bot's column choice), consumed *)
(* from the head, and log, what the operation did (locks, successful       *)
(* shifts and rotations, holds, the pieces drawn, the shift attempts and   *)
(* the auto-repeat shifts that succeeded, the gravity falls, the queue     *)
(* refills and removals), which the properties read.                       *)
(***************************************************************************)
None == "None"

Opp(idx) == IF idx = 0 THEN 1 ELSE 0

InputFrameOf(l, r, sd, hd, ccw, cw, r180, h) ==
  [left |-> l, right |-> r, soft_drop |-> sd, hard_drop |-> hd,
   rotate_ccw |-> ccw, rotate_cw |-> cw, rotate_180 |-> r180, hold |-> h]

DefaultInput ==
  InputFrameOf(FALSE, FALSE, FALSE, FALSE, FALSE, FALSE, FALSE, FALSE)

\* SoftDropSpeed::factor, times 10.
soft_drop_factor10(speed) ==
  CASE speed = "Slow" -> 12
    [] speed = "Medium" -> 20
    [] speed = "Fast" -> 50
    [] speed = "Ultra" -> 200
    [] speed = "Instant" -> 9990

DefaultSettings ==
  [das |-> DEFAULT_DAS, arr |-> DEFAULT_ARR, soft_drop |-> "Medium"]

default_attack_table ==
  [_0_lines |-> 0, _1_line_single |-> 0, _2_lines_double |-> 1,
   _3_lines_triple |-> 2, _4_lines |-> 4, t_spin_double |-> 4,
   t_spin_triple |-> 6, t_spin_single |-> 2, t_spin_mini_single |-> 0,
   perfect_clear |-> 10, back_to_back_bonus |-> 1]

\* c0 .. c11, c12_plus
default_combo_table == <<0, 0, 1, 1, 1, 2, 2, 3, 3, 4, 4, 4, 5>>

(***************************************************************************)
(* Randomizers.  A randomizer is [kind, piece, bag].                       *)
(***************************************************************************)
randomizer_from_kind(kind) ==
  [kind |-> kind.kind, piece |-> kind.piece, bag |-> <<>>]

\* Board::hole_count: the empty cells with a filled cell above them.
hole_count(cells) ==
  Let([x \in Cols |-> {y \in Rows : cells[y][x] # 0}], LAMBDA filled :
    Cardinality({c \in Cols \X Rows :
                   /\ cells[c[2]][c[1]] = 0
                   /\ \E y \in filled[c[1]] : y > c[2]}))

I32_MIN == -2147483647 - 1

\* The greatest element of a non-empty set of integers.
MaxOf(S) == CHOOSE m \in S : \A k \in S : k <= m

\* The score LoveTris::score_candidate gives one orientation and column;
\* I32_MIN where the piece has no drop height.
placement_score(cells, piece, rot, x) ==
  Let(shape_blocks(piece, rot), LAMBDA shape :
    Let(lowest_drop_height(cells, x, shape), LAMBDA h :
      IF h = -1 THEN I32_MIN
      ELSE Let(clear_lines(board_lock_piece(cells, x, h, shape, color_id(piece))),
               LAMBDA cl :
                 cl[2] * 40 - hole_count(cl[1]) * 8 - max_height(cl[1]) * 2)))

\* LoveTris::score_candidate
score_candidate(cells, piece) ==
  MaxOf({placement_score(cells, piece, rot, x) :
           rot \in Rotations, x \in (-2)..(WIDTH + 1)})

\* The index LoveTris::next removes: the first piece of the bag with the
\* greatest score.
best_index(cells, bag) ==
  Let([i \in 1..Len(bag) |-> score_candidate(cells, bag[i])], LAMBDA score :
    CHOOSE i \in 1..Len(bag) :
      /\ \A j \in 1..Len(bag) : score[j] <= score[i]
      /\ \A j \in 1..(i - 1) : score[j] < score[i])

\* Vec::remove(i), 1-based.
Remove(s, i) == SubSeq(s, 1, i - 1) \o SubSeq(s, i + 1, Len(s))

\* A bag that is refilled before its last piece is drawn.
is_nearly_empty(bag) == Len(bag) <= 1

\* Vec::is_empty
is_empty(bag) == bag = <<>>

\* Randomizer::next for player idx: [piece, v].
next_piece(v, idx) ==
  LET rz == v.players[idx].randomizer IN
  CASE rz.kind = "TrueRandom" ->
         [piece |-> Head(v.rng.picks),
          v |-> [v EXCEPT !.rng.picks = Tail(@)]]
    [] rz.kind = "SinglePiece" -> [piece |-> rz.piece, v |-> v]
    [] rz.kind = "SevenBag" ->
         LET refill == is_empty(rz.bag)
             bag == IF refill THEN Head(v.rng.perms) ELSE rz.bag
         IN [piece |-> bag[Len(bag)],
             v |-> [v EXCEPT
                      !.players[idx].randomizer.bag = SubSeq(bag, 1, Len(bag) - 1),
                      !.rng.perms = IF refill THEN Tail(@) ELSE @]]
    [] rz.kind = "LoveTris" ->
         Let(v.players[idx].board, LAMBDA cells :
         Let(is_empty(rz.bag), LAMBDA refill :
         Let(IF refill THEN Head(v.rng.perms) ELSE rz.bag, LAMBDA bag :
         Let(best_index(cells, bag), LAMBDA best :
           [piece |-> bag[best],
            v |-> [v EXCEPT
                     !.players[idx].randomizer.bag = Remove(bag, best),
                     !.rng.perms = IF refill THEN Tail(@) ELSE @]]))))

\* The loop of Player::refill_queue.
RECURSIVE refill_loop(_, _)
refill_loop(v, idx) ==
  IF Len(v.players[idx].queue) >= QUEUE_LEN THEN v
  ELSE Let(next_piece(v, idx), LAMBDA d :
         refill_loop([d.v EXCEPT !.players[idx].queue = Append(@, d.piece),
                                 !.players[idx].last_refill_added = d.piece,
                                 !.log.drawn[idx] = Append(@, d.piece)],
                     idx))

\* A refill that stops one piece short.
refill_queue_short(v, idx) ==
  [v EXCEPT !.players[idx].last_refill_added = None,
            !.log.refills[idx] = @ + 1,
            !.players[idx].queue =
               IF Len(@) < QUEUE_LEN - 1
               THEN @ \o [i \in 1..(QUEUE_LEN - 1 - Len(@)) |-> "T"] ELSE @]

refill_queue(v, idx) ==
  refill_loop([v EXCEPT !.players[idx].last_refill_added = None,
                        !.log.refills[idx] = @ + 1],
              idx)

\* Player::spawn_next
spawn_next(v, idx) ==
  LET ap == NewActivePiece(Head(v.players[idx].queue)) IN
  Let(refill_queue([v EXCEPT !.players[idx].held_on_turn = FALSE,
                             !.players[idx].last_action_was_t_spin = FALSE,
                             !.players[idx].queue = Tail(@),
                             !.log.pops[idx] = Append(@, Len(v.players[idx].queue))],
                   idx),
      LAMBDA v1 :
        [v1 EXCEPT !.players[idx].active = ap,
                   !.players[idx].topped_out =
                      IF collision(v1.players[idx].board, ap) THEN TRUE ELSE @])

\* Player::new; the first piece is taken from the queue without a refill.
RECURSIVE initial_queue(_, _, _)
initial_queue(v, idx, n) ==
  IF n = 0 THEN v
  ELSE Let(next_piece(v, idx), LAMBDA d :
         initial_queue([d.v EXCEPT !.players[idx].queue = Append(@, d.piece),
                                   !.log.drawn[idx] = Append(@, d.piece)],
                       idx, n - 1))

NewPlayerShell(kind) ==
  [board |-> NewBoard, active |-> NewActivePiece("I"), queue |-> <<>>,
   hold |-> None, held_on_turn |-> FALSE, last_action_was_t_spin |-> FALSE,
   randomizer |-> randomizer_from_kind(kind), topped_out |-> FALSE,
   pending_garbage |-> 0, combo |-> 0, back_to_back |-> FALSE,
   last_refill_added |-> None]

new_player(v, idx) ==
  Let(initial_queue(v, idx, QUEUE_LEN), LAMBDA v1 :
    [v1 EXCEPT !.players[idx].active = NewActivePiece(Head(v1.players[idx].queue)),
               !.players[idx].queue = Tail(@)])

\* A set_randomizer that also restarts a topped-out player.
player_set_randomizer_revive(v, idx, kind) ==
  spawn_next([refill_queue([v EXCEPT !.players[idx].randomizer = randomizer_from_kind(kind),
                                     !.players[idx].queue = <<>>],
                           idx)
                EXCEPT !.players[idx].hold = None,
                       !.players[idx].topped_out = FALSE],
             idx)

\* Player::set_randomizer
player_set_randomizer(v, idx, kind) ==
  LET v1 == refill_queue([v EXCEPT !.players[idx].randomizer = randomizer_from_kind(kind),
                                   !.players[idx].queue = <<>>],
                         idx)
  IN spawn_next([v1 EXCEPT !.players[idx].hold = None], idx)

\* Player::lock_piece: [v, cleared, t_spin]; at is the piece as it locked.
lock_piece(v, idx) ==
  LET p == v.players[idx] IN
  Let(clear_lines(board_lock_piece(p.board, p.active.x, p.active.y,
                                   blocks(p.active), color_id(p.active.piece))),
      LAMBDA cl :
        [v |-> spawn_next([v EXCEPT !.players[idx].board = cl[1]], idx),
         cleared |-> cl[2],
         at |-> p.active,
         t_spin |-> p.last_action_was_t_spin /\ p.active.piece = "T" /\ cl[2] > 0])

\* The loop of Player::hard_drop: the landing row.
RECURSIVE landing_y(_, _, _)
landing_y(cells, ap, y) ==
  IF collision(cells, [ap EXCEPT !.y = y - 1]) THEN y
  ELSE IF y - 1 < 0 THEN y - 1
  ELSE landing_y(cells, ap, y - 1)

\* A hard drop that locks the piece where it is.
hard_drop_in_place(v, idx) == lock_piece(v, idx)

\* Player::hard_drop
hard_drop(v, idx) ==
  LET p == v.players[idx] IN
  lock_piece([v EXCEPT !.players[idx].active.y = landing_y(p.board, p.active, p.active.y)],
             idx)

(***************************************************************************)
(* Lock resolution: Versus::on_piece_locked.                               *)
(***************************************************************************)
base_attack(cleared, is_t_spin) ==
  IF is_t_spin /\ cleared > 0 THEN
    CASE cleared = 1 -> default_attack_table.t_spin_single
      [] cleared = 2 -> default_attack_table.t_spin_double
      [] OTHER -> default_attack_table.t_spin_triple
  ELSE
    CASE cleared = 0 -> default_attack_table._0_lines
      [] cleared = 1 -> default_attack_table._1_line_single
      [] cleared = 2 -> default_attack_table._2_lines_double
      [] cleared = 3 -> default_attack_table._3_lines_triple
      [] OTHER -> default_attack_table._4_lines

\* combo is the player's combo after this lock's update.
combo_bonus(combo) ==
  LET combo_idx == SatSub(combo, 1) IN
  IF combo_idx <= 11 THEN default_combo_table[combo_idx + 1]
  ELSE default_combo_table[13]

\* A combo that a lock without a clear leaves alone.
combo_no_reset(combo, cleared) ==
  IF cleared > 0 THEN SatAdd(combo, 1) ELSE combo

combo_after(combo, cleared) ==
  IF cleared > 0 THEN SatAdd(combo, 1) ELSE 0

b2b_bonus(back_to_back, cleared) ==
  IF back_to_back /\ cleared >= 4 THEN default_attack_table.back_to_back_bonus
  ELSE 0

\* A flag that only a clear of one to three lines ends.
b2b_sticky(back_to_back, cleared) ==
  IF cleared = 0 THEN back_to_back ELSE cleared >= 4

b2b_after(back_to_back, cleared) == cleared >= 4

perfect_clear_bonus(cells) ==
  IF visible_empty(cells) THEN default_attack_table.perfect_clear ELSE 0

\* The attack with the combo bonus read from the combo before its update.
attack_stale_combo(p, cleared, is_t_spin) ==
  SatAdd(SatAdd(SatAdd(base_attack(cleared, is_t_spin), combo_bonus(p.combo)),
                b2b_bonus(p.back_to_back, cleared)),
         perfect_clear_bonus(p.board))

attack_before_cancel(p, cleared, is_t_spin) ==
  SatAdd(SatAdd(SatAdd(base_attack(cleared, is_t_spin),
                       combo_bonus(combo_after(p.combo, cleared))),
                b2b_bonus(p.back_to_back, cleared)),
         perfect_clear_bonus(p.board))

\* A cancellation that still sends the whole attack.
cancel_keep_attack(pending, attack) == <<SatSub(pending, attack), attack>>

\* The cancellation step: <<pending left, attack left>>.
cancel_garbage(pending, attack) ==
  IF attack > 0 THEN
    IF pending >= attack THEN <<pending - attack, 0>>
    ELSE <<0, attack - pending>>
  ELSE <<pending, attack>>

\* A spill that does not wait for the combo to break.
spill_always(v, idx, apply_garbage) ==
  IF v.players[idx].pending_garbage > 0 THEN
    Let(add_garbage(v.players[idx].board, v.players[idx].pending_garbage,
                    Head(v.rng.holes)),
        LAMBDA g :
          [v EXCEPT !.players[idx].board = g[1],
                    !.players[idx].topped_out = IF g[2] THEN TRUE ELSE @,
                    !.players[idx].pending_garbage = 0,
                    !.rng.holes = Tail(@)])
  ELSE v

\* The spill: "Apply any blocked garbage now that combo is broken."
spill_garbage(v, idx, apply_garbage) ==
  LET pending == v.players[idx].pending_garbage IN
  IF apply_garbage /\ pending > 0 THEN
    Let(add_garbage(v.players[idx].board, pending, Head(v.rng.holes)), LAMBDA g :
      [v EXCEPT !.players[idx].board = g[1],
                !.players[idx].topped_out = IF g[2] THEN TRUE ELSE @,
                !.players[idx].pending_garbage = 0,
                !.rng.holes = Tail(@)])
  ELSE v

\* A delivery that does not count the lines it sends.
deliver_attack_uncounted(v, idx, attack_out) ==
  IF attack_out > 0 THEN
    [v EXCEPT !.players[Opp(idx)].pending_garbage = SatAdd(@, attack_out)]
  ELSE v

\* "Deliver outgoing attack after previous borrows are released."
deliver_attack(v, idx, attack_out) ==
  IF attack_out > 0 THEN
    [v EXCEPT !.players[Opp(idx)].pending_garbage = SatAdd(@, attack_out),
              !.stats[idx].lines_sent = SatAdd(@, attack_out)]
  ELSE v

on_piece_locked(v, idx, cleared, is_t_spin) ==
  LET p == v.players[idx] IN
  Let(attack_before_cancel(p, cleared, is_t_spin), LAMBDA attack :
  Let(cancel_garbage(p.pending_garbage, attack), LAMBDA c :
    deliver_attack(
      spill_garbage(
        [v EXCEPT !.stats[idx].pieces = SatAdd(@, 1),
                  !.stats[idx].attack = SatAdd(@, attack),
                  !.players[idx].combo = combo_after(@, cleared),
                  !.players[idx].back_to_back = b2b_after(@, cleared),
                  !.players[idx].pending_garbage = c[1],
                  !.log.locks = Append(@,
                     [idx |-> idx, cleared |-> cleared, t_spin |-> is_t_spin,
                      via |-> "lock", at |-> None, combo0 |-> p.combo,
                      b2b0 |-> p.back_to_back, pend0 |-> p.pending_garbage,
                      opp0 |-> v.players[Opp(idx)].pending_garbage,
                      attack0 |-> v.stats[idx].attack,
                      sent0 |-> v.stats[idx].lines_sent])],
        idx, cleared = 0),
      idx, c[2])))

\* Names the caller of the lock just logged (hard drop, lock delay, bot move)
\* and the piece it locked.
lock_via(v, via, at) ==
  [v EXCEPT !.log.locks[Len(v.log.locks)] = [@ EXCEPT !.via = via, !.at = at]]

\* What every caller does with l, the outcome of its lock: on_piece_locked,
\* then the fall accumulator is cleared.
resolve_lock(l, idx, via) ==
  [lock_via(on_piece_locked(l.v, idx, l.cleared, l.t_spin), via, l.at)
     EXCEPT !.fall_accum[idx] = 0]

(***************************************************************************)
(* Active-piece operations of Versus.  Each returns [v, ok].               *)
(***************************************************************************)
try_fall(v, idx) ==
  LET test == [v.players[idx].active EXCEPT !.y = @ - 1] IN
  IF collision(v.players[idx].board, test) THEN [v |-> v, ok |-> FALSE]
  ELSE [v |-> [v EXCEPT !.players[idx].active = test], ok |-> TRUE]

try_shift(v, idx, dir) ==
  LET test == [v.players[idx].active EXCEPT !.x = @ + dir] IN
  IF collision(v.players[idx].board, test) THEN [v |-> v, ok |-> FALSE]
  ELSE [v |-> [v EXCEPT !.players[idx].active = test], ok |-> TRUE]

\* A kick loop that takes the first candidate without testing it.
try_kicks_unchecked(v, idx, to, ks, k) ==
  [v |-> [v EXCEPT !.players[idx].active =
                      [@ EXCEPT !.rotation = to, !.x = @ + ks[1][1],
                                !.y = @ + ks[1][2]],
                   !.players[idx].last_action_was_t_spin =
                      (v.players[idx].active.piece = "T")],
   ok |-> TRUE]

\* The kick loop of a 90-degree rotation, from candidate k on.
RECURSIVE try_kicks(_, _, _, _, _)
try_kicks(v, idx, to, ks, k) ==
  IF k > Len(ks) THEN [v |-> v, ok |-> FALSE]
  ELSE
    LET test == [v.players[idx].active EXCEPT !.rotation = to,
                                              !.x = @ + ks[k][1],
                                              !.y = @ + ks[k][2]]
    IN IF ~collision(v.players[idx].board, test)
       THEN [v |-> [v EXCEPT !.players[idx].active = test,
                             !.players[idx].last_action_was_t_spin =
                                (test.piece = "T")],
             ok |-> TRUE]
       ELSE try_kicks(v, idx, to, ks, k + 1)

try_rotate_90(v, idx, cw) ==
  LET from == v.players[idx].active.rotation
      to == IF cw THEN rotate_cw(from) ELSE rotate_ccw(from)
  IN try_kicks(v, idx, to, kicks(v.players[idx].active.piece, from, to), 1)

\* A 180-degree rotation that is undone unless both quarter turns succeed.
try_rotate_atomic(v, idx, cw, double) ==
  IF double THEN
    Let(try_rotate_90(v, idx, cw), LAMBDA first :
    Let(try_rotate_90(first.v, idx, cw), LAMBDA second :
      IF first.ok /\ second.ok THEN [v |-> second.v, ok |-> TRUE]
      ELSE [v |-> v, ok |-> FALSE]))
  ELSE try_rotate_90(v, idx, cw)

try_rotate(v, idx, cw, double) ==
  IF double THEN
    Let(try_rotate_90(v, idx, cw), LAMBDA first :
    Let(try_rotate_90(first.v, idx, cw), LAMBDA second :
      [v |-> second.v, ok |-> first.ok \/ second.ok]))
  ELSE try_rotate_90(v, idx, cw)

\* A hold that can be repeated within a turn.
try_hold_again(v, idx) ==
  LET current == v.players[idx].active.piece
      held == v.players[idx].hold
      v1 == IF held # None
            THEN [v EXCEPT !.players[idx].active = NewActivePiece(held),
                           !.players[idx].hold = current]
            ELSE spawn_next([v EXCEPT !.players[idx].hold = current], idx)
  IN [v1 EXCEPT !.players[idx].held_on_turn = TRUE,
                !.log.held = @ \cup {idx}]

try_hold(v, idx) ==
  IF v.players[idx].held_on_turn THEN v
  ELSE
    LET current == v.players[idx].active.piece
        held == v.players[idx].hold
        v1 == IF held # None
              THEN [v EXCEPT !.players[idx].active = NewActivePiece(held),
                             !.players[idx].hold = current]
              ELSE spawn_next([v EXCEPT !.players[idx].hold = current], idx)
    IN [v1 EXCEPT !.players[idx].held_on_turn = TRUE,
                  !.log.held = @ \cup {idx}]

(***************************************************************************)
(* Controller.                                                             *)
(***************************************************************************)
NewController ==
  [inputs |-> DefaultInput, last_hard_drop |-> FALSE, last_dir |-> 0,
   das_timer |-> 0, arr_timer |-> 0, shifted_initial |-> FALSE,
   last_rotate_cw |-> FALSE, last_rotate_ccw |-> FALSE,
   last_rotate_180 |-> FALSE]

count_input_edges(prev, curr) ==
  Cardinality({k \in DOMAIN curr : ~prev[k] /\ curr[k]})

\* Controller::take_*: [fire, v]
take_hard_drop(v, idx) ==
  LET c == v.controllers[idx] IN
  [fire |-> c.inputs.hard_drop /\ ~c.last_hard_drop,
   v |-> [v EXCEPT !.controllers[idx].last_hard_drop = c.inputs.hard_drop]]

take_rotate_cw(v, idx) ==
  LET c == v.controllers[idx] IN
  [fire |-> c.inputs.rotate_cw /\ ~c.last_rotate_cw,
   v |-> [v EXCEPT !.controllers[idx].last_rotate_cw = c.inputs.rotate_cw]]

take_rotate_ccw(v, idx) ==
  LET c == v.controllers[idx] IN
  [fire |-> c.inputs.rotate_ccw /\ ~c.last_rotate_ccw,
   v |-> [v EXCEPT !.controllers[idx].last_rotate_ccw = c.inputs.rotate_ccw]]

take_rotate_180(v, idx) ==
  LET c == v.controllers[idx] IN
  [fire |-> c.inputs.rotate_180 /\ ~c.last_rotate_180,
   v |-> [v EXCEPT !.controllers[idx].last_rotate_180 = c.inputs.rotate_180]]

(***************************************************************************)
(* Versus::advance_player, in the order of the source.                     *)
(***************************************************************************)
\* One rotate edge: take it and, when it fires, rotate.  [v, ok]
rotate_step(t, idx, cw, double) ==
  IF t.fire THEN try_rotate(t.v, idx, cw, double) ELSE [v |-> t.v, ok |-> FALSE]

\* The three rotate edges (CW, CCW, 180): [v, rotated]
rotate_phase(v, idx) ==
  Let(rotate_step(take_rotate_cw(v, idx), idx, TRUE, FALSE), LAMBDA a :
  Let(rotate_step(take_rotate_ccw(a.v, idx), idx, FALSE, FALSE), LAMBDA b :
  Let(rotate_step(take_rotate_180(b.v, idx), idx, TRUE, TRUE), LAMBDA c :
    [v |-> c.v, rotated |-> a.ok \/ b.ok \/ c.ok])))

\* The auto-repeat loop: [v, arr_timer, moved]
RECURSIVE arr_loop(_, _, _, _, _, _)
arr_loop(v, idx, dir, arr_timer, step, moved) ==
  IF arr_timer >= step THEN
    Let(try_shift([v EXCEPT !.log.shifts[idx] = Append(@, "repeat")], idx, dir), LAMBDA s :
      IF ~s.ok THEN [v |-> s.v, arr_timer |-> arr_timer, moved |-> moved]
      ELSE arr_loop([s.v EXCEPT !.log.repeated[idx] = @ + 1], idx, dir,
                    arr_timer - step, step, TRUE))
  ELSE [v |-> v, arr_timer |-> arr_timer, moved |-> moved]

input_dir(inputs) ==
  IF inputs.left /\ ~inputs.right THEN -1
  ELSE IF ~inputs.left /\ inputs.right THEN 1
  ELSE 0

\* An auto-repeat that does not wait for the DAS delay.
das_always(das_timer, das) == TRUE

\* The test that opens the auto-repeat.
das_charged(das_timer, das) == das_timer >= das

\* The DAS/ARR section: [v, moved]
shift_phase(v, idx, dt_ms, inputs) ==
  LET dir == input_dir(inputs)
      c0 == v.controllers[idx]
      c == IF dir # c0.last_dir
           THEN [c0 EXCEPT !.das_timer = 0, !.arr_timer = 0,
                           !.shifted_initial = FALSE, !.last_dir = dir]
           ELSE c0
      va == [v EXCEPT !.controllers[idx] = c, !.log.das = @ \cup {idx}]
  IN
  IF dir # 0 THEN
    LET das_timer == c.das_timer + dt_ms IN
    Let(IF ~c.shifted_initial
        THEN try_shift([va EXCEPT !.log.shifts[idx] = Append(@, "initial")], idx, dir)
        ELSE [v |-> va, ok |-> FALSE],
        LAMBDA first :
    Let(IF das_charged(das_timer, v.settings.das)
        THEN arr_loop(first.v, idx, dir, c.arr_timer + dt_ms,
                      Max(v.settings.arr, 1), FALSE)
        ELSE [v |-> first.v, arr_timer |-> c.arr_timer, moved |-> FALSE],
        LAMBDA rep :
      [v |-> [rep.v EXCEPT !.controllers[idx].das_timer = das_timer,
                           !.controllers[idx].arr_timer = rep.arr_timer,
                           !.controllers[idx].shifted_initial = TRUE],
       moved |-> first.ok \/ rep.moved]))
  ELSE
    [v |-> [va EXCEPT !.controllers[idx].das_timer = 0,
                      !.controllers[idx].arr_timer = 0,
                      !.controllers[idx].shifted_initial = FALSE],
     moved |-> FALSE]

hold_phase(v, idx, inputs) ==
  IF inputs.hold THEN try_hold(v, idx) ELSE v

\* A gravity step that charges the accumulator for a blocked fall too.
gravity_charge_blocked(v, idx) ==
  IF v.fall_accum[idx] >= GRAVITY_MS * 10 THEN
    Let(try_fall(v, idx), LAMBDA f :
      IF ~f.ok THEN [v EXCEPT !.fall_accum[idx] = @ - GRAVITY_MS * 10,
                              !.log.blocked = @ \cup {idx}]
      ELSE [f.v EXCEPT !.fall_accum[idx] = @ - GRAVITY_MS * 10,
                       !.log.falls[idx] = @ + 1])
  ELSE v

\* The gravity loop on the accumulator (tenths of a millisecond).
RECURSIVE gravity_loop(_, _)
gravity_loop(v, idx) ==
  IF v.fall_accum[idx] >= GRAVITY_MS * 10 THEN
    Let(try_fall(v, idx), LAMBDA f :
      IF ~f.ok THEN [v EXCEPT !.log.blocked = @ \cup {idx}]
      ELSE gravity_loop([f.v EXCEPT !.fall_accum[idx] = @ - GRAVITY_MS * 10,
                                    !.log.falls[idx] = @ + 1],
                        idx))
  ELSE v

\* The gravity section; log.grav keeps the row and the accumulator at the
\* start of the loop (y0, acc0) and at its end (y1, acc1), as a one-element
\* sequence.
gravity_phase(v, idx, dt_ms, inputs) ==
  LET drop_speed10 == IF inputs.soft_drop
                      THEN soft_drop_factor10(v.settings.soft_drop) ELSE 10
  IN Let(gravity_loop([v EXCEPT !.fall_accum[idx] = @ + dt_ms * drop_speed10], idx),
         LAMBDA g :
           [g EXCEPT !.log.grav[idx] =
                        <<[y0 |-> v.players[idx].active.y,
                           y1 |-> g.players[idx].active.y,
                           acc0 |-> v.fall_accum[idx] + dt_ms * drop_speed10,
                           acc1 |-> g.fall_accum[idx]]>>])

on_ground(v, idx) ==
  collision(v.players[idx].board, [v.players[idx].active EXCEPT !.y = @ - 1])

\* A lock-delay section whose timer runs out without a lock.
lock_delay_without_lock(v, idx, dt_ms, rotated, moved) ==
  IF on_ground(v, idx)
  THEN [v EXCEPT !.players[idx].active.lock_timer = @ - dt_ms]
  ELSE [v EXCEPT !.players[idx].active.lock_timer = LOCK_DELAY_MS,
                 !.players[idx].active.move_resets = MOVE_RESETS]

\* The lock-delay section at the end of advance_player.
lock_delay_phase(v, idx, dt_ms, rotated, moved) ==
  Let(on_ground(v, idx), LAMBDA ground :
    LET piece == v.players[idx].active
        restore == (rotated \/ moved) /\ ground /\ piece.move_resets > 0
        p1 == IF restore
              THEN [piece EXCEPT !.lock_timer = LOCK_DELAY_MS,
                                 !.move_resets = @ - 1]
              ELSE piece
    IN
    IF ground THEN
      Let([v EXCEPT !.players[idx].active = [p1 EXCEPT !.lock_timer = @ - dt_ms],
                    !.log.restored = IF restore THEN @ \cup {idx} ELSE @],
          LAMBDA v2 :
            IF v2.players[idx].active.lock_timer <= 0
            THEN resolve_lock(lock_piece(v2, idx), idx, "delay")
            ELSE v2)
    ELSE [v EXCEPT !.players[idx].active =
                      [p1 EXCEPT !.lock_timer = LOCK_DELAY_MS,
                                 !.move_resets = MOVE_RESETS]])

advance_player(v, idx, dt_ms, inputs) ==
  IF v.players[idx].topped_out THEN v
  ELSE
    Let(take_hard_drop(v, idx), LAMBDA hd :
      IF hd.fire THEN resolve_lock(hard_drop(hd.v, idx), idx, "hard")
      ELSE
        Let(rotate_phase(hd.v, idx), LAMBDA r :
        Let(shift_phase(r.v, idx, dt_ms, inputs), LAMBDA s :
          lock_delay_phase(
            [gravity_phase(hold_phase(s.v, idx, inputs), idx, dt_ms, inputs)
               EXCEPT !.log.rotated = IF r.rotated THEN @ \cup {idx} ELSE @,
                      !.log.moved = IF s.moved THEN @ \cup {idx} ELSE @],
            idx, dt_ms, r.rotated, s.moved))))

(***************************************************************************)
(* The fallback bot: BotDriver::update and find_safe_column.               *)
(***************************************************************************)
RECURSIVE column_height_from(_, _, _)
column_height_from(cells, col, y) ==
  IF y < 0 THEN 0
  ELSE IF cells[y][col] # 0 THEN y + 1
  ELSE column_height_from(cells, col, y - 1)

column_height(cells, col) == column_height_from(cells, col, TOTAL_HEIGHT - 1)

\* The columns find_safe_column can return: it keeps the first column of
\* least height in the shuffled order.
safe_columns(cells) ==
  LET height == [c \in Cols |-> column_height(cells, c)] IN
  {c \in Cols : \A d \in Cols : height[c] <= height[d]}

find_safe_column(cells, piece, col) ==
  [DefaultInput EXCEPT
     !.hard_drop = TRUE,
     !.left = col < 4,
     !.right = col > 4,
     !.rotate_cw = piece = "I" /\
        column_height(cells, col) + 4 > VISIBLE_HEIGHT + BUFFER_HEIGHT - 2]

\* think_timer >= 1000 / max(pps, 0.1), with pps in tenths.
bot_ready(think_timer, pps10) == think_timer * Max(pps10, 1) >= 10000

\* [frame, v]
bot_update(v, dt_ms) ==
  LET think == v.bot_driver.think_timer + dt_ms IN
  IF bot_ready(think, v.bot_driver.pps10) THEN
    [frame |-> find_safe_column(v.players[1].board, v.players[1].active.piece,
                                Head(v.rng.cols)),
     v |-> [v EXCEPT !.bot_driver.think_timer = 0, !.rng.cols = Tail(@)]]
  ELSE [frame |-> DefaultInput,
        v |-> [v EXCEPT !.bot_driver.think_timer = think]]

(***************************************************************************)
(* Versus::tick                                                            *)
(***************************************************************************)
tick_inputs(v, dt_ms, input0) ==
  LET v1 == [v EXCEPT !.stats[0].time_ms = @ + dt_ms,
                      !.stats[1].time_ms = @ + dt_ms,
                      !.controllers[0].inputs = input0,
                      !.stats[0].keys = @ + count_input_edges(v.last_inputs[0], input0),
                      !.last_inputs[0] = input0]
  IN
  IF v1.use_internal_bot THEN
    Let(bot_update(v1, dt_ms), LAMBDA b :
      [b.v EXCEPT !.controllers[1].inputs = b.frame,
                  !.stats[1].keys = @ + count_input_edges(v1.last_inputs[1], b.frame),
                  !.last_inputs[1] = b.frame])
  ELSE [v1 EXCEPT !.controllers[1].inputs = DefaultInput]

\* A tick that advances player 1 whether or not the internal bot is on.
tick_players_always(v, dt_ms) ==
  advance_player(advance_player(v, 0, dt_ms, v.controllers[0].inputs),
                 1, dt_ms, v.controllers[1].inputs)

tick_players(v, dt_ms) ==
  Let(advance_player(v, 0, dt_ms, v.controllers[0].inputs), LAMBDA v0 :
    IF v0.use_internal_bot
    THEN advance_player(v0, 1, dt_ms, v0.controllers[1].inputs)
    ELSE v0)

\* The tick without its early return.
tick_unguarded(v, dt_ms, input0) ==
  tick_players(tick_inputs(v, dt_ms, input0), dt_ms)

tick(v, dt_ms, input0) ==
  IF v.players[0].topped_out \/ v.players[1].topped_out THEN v
  ELSE tick_players(tick_inputs(v, dt_ms, input0), dt_ms)

(***************************************************************************)
(* The bot-protocol adapter: Versus::apply_tbp_move.  A move is            *)
(* [piece, orientation, x, y] with piece and orientation protocol tags     *)
(* ("Unknown" for a tag the protocol does not know).  The result is        *)
(* [v, res, out]: res is "ok" or the error, v the engine as the call left  *)
(* it (the source mutates the player in place before it returns an error). *)
(***************************************************************************)
Unknown == "Unknown"
NoResult == [lines_cleared |-> 0, topped_out |-> FALSE, active_piece |-> None,
             new_queue_piece |-> None, combo |-> 0, back_to_back |-> FALSE]

move_failed(v, err) == [v |-> v, res |-> err, out |-> NoResult]

\* "Bot used hold to skip to the next piece."
hold_and_take_next(v, idx, desired) ==
  [refill_queue([v EXCEPT !.players[idx].hold = v.players[idx].active.piece,
                          !.players[idx].active = NewActivePiece(desired),
                          !.players[idx].queue = Tail(@),
                          !.log.pops[idx] = Append(@, Len(v.players[idx].queue))],
                idx)
     EXCEPT !.players[idx].held_on_turn = TRUE]

\* A selection whose swap leaves the hold slot as it was.
select_piece_keep_hold(v, idx, desired) ==
  LET p == v.players[idx]
      front_ok == p.queue # <<>> /\ Head(p.queue) = desired /\ ~p.held_on_turn
  IN
  IF desired = p.active.piece THEN [v |-> v, ok |-> TRUE]
  ELSE IF p.hold # None /\ p.hold = desired THEN
    [v |-> [v EXCEPT !.players[idx].active = NewActivePiece(desired),
                     !.players[idx].held_on_turn = TRUE],
     ok |-> TRUE]
  ELSE IF front_ok THEN [v |-> hold_and_take_next(v, idx, desired), ok |-> TRUE]
  ELSE [v |-> v, ok |-> FALSE]

\* The piece selection of apply_tbp_move: [v, ok]
select_piece(v, idx, desired) ==
  LET p == v.players[idx]
      front_ok == p.queue # <<>> /\ Head(p.queue) = desired /\ ~p.held_on_turn
  IN
  IF desired = p.active.piece THEN [v |-> v, ok |-> TRUE]
  ELSE IF p.hold # None THEN
    IF p.hold = desired THEN
      [v |-> [v EXCEPT !.players[idx].active = NewActivePiece(desired),
                       !.players[idx].hold = p.active.piece,
                       !.players[idx].held_on_turn = TRUE],
       ok |-> TRUE]
    ELSE IF front_ok THEN [v |-> hold_and_take_next(v, idx, desired), ok |-> TRUE]
    ELSE [v |-> v, ok |-> FALSE]
  ELSE IF front_ok THEN [v |-> hold_and_take_next(v, idx, desired), ok |-> TRUE]
  ELSE [v |-> v, ok |-> FALSE]

\* A correction applied to the I piece in every orientation.
placement_x_any_rotation(piece, rotation, x) ==
  IF piece = "I" THEN x - 1 ELSE x

\* The internal x of a placement (the I-piece correction).
placement_x(piece, rotation, x) ==
  IF piece = "I" /\ (rotation = "Right" \/ rotation = "Reverse") THEN x - 1
  ELSE x

\* Sets the active piece from the move and resolves a collision: [v, ok]
place_piece(v, idx, mv) ==
  LET a == v.players[idx].active
      rot == from_tbp_orientation(mv.orientation)
      ap == [a EXCEPT !.rotation = rot,
                      !.x = placement_x(a.piece, rot, mv.x),
                      !.y = mv.y]
      cells == v.players[idx].board
  IN
  IF collision(cells, ap) THEN
    Let(lowest_drop_height(cells, ap.x, blocks(ap)), LAMBDA drop_y :
      IF drop_y # -1 THEN
        [v |-> [v EXCEPT !.players[idx].active = [ap EXCEPT !.y = drop_y]],
         ok |-> ~collision(cells, [ap EXCEPT !.y = drop_y])]
      ELSE [v |-> [v EXCEPT !.players[idx].active = ap], ok |-> FALSE])
  ELSE [v |-> [v EXCEPT !.players[idx].active = ap], ok |-> TRUE]

move_result(v, idx, cleared) ==
  LET p == v.players[idx] IN
  [lines_cleared |-> cleared,
   topped_out |-> p.topped_out,
   active_piece |-> IF p.topped_out THEN None ELSE p.active.piece,
   new_queue_piece |-> IF p.last_refill_added # None THEN p.last_refill_added
                       ELSE IF p.queue # <<>> THEN p.queue[Len(p.queue)]
                       ELSE None,
   combo |-> p.combo,
   back_to_back |-> p.back_to_back]

apply_tbp_move(v, idx, mv) ==
  IF idx >= 2 THEN move_failed(v, "InvalidPlayerIndex")
  ELSE IF v.players[idx].topped_out THEN move_failed(v, "PlayerToppedOut")
  ELSE IF mv.piece = Unknown THEN move_failed(v, "UnknownPiece")
  ELSE
    Let(select_piece(v, idx, mv.piece), LAMBDA sel :
      IF ~sel.ok THEN move_failed(sel.v, "MoveNotAvailable")
      ELSE IF mv.orientation = Unknown THEN move_failed(sel.v, "UnknownOrientation")
      ELSE
        Let(place_piece(sel.v, idx, mv), LAMBDA pl :
          IF ~pl.ok THEN move_failed(pl.v, "PlacementCollision")
          ELSE
            Let(lock_piece(pl.v, idx), LAMBDA l :
            Let(resolve_lock(l, idx, "move"), LAMBDA v1 :
              [v |-> v1, res |-> "ok", out |-> move_result(v1, idx, l.cleared)]))))

\* Versus::set_randomizer
set_randomizer(v, player, kind) ==
  IF player \in {0, 1} THEN player_set_randomizer(v, player, kind) ELSE v

\* GameClient::set_internal_bot_enabled
set_internal_bot_enabled(v, enabled) == [v EXCEPT !.use_internal_bot = enabled]

(***************************************************************************)
(* Versus::new                                                             *)
(***************************************************************************)
SinglePieceKind(piece) == [kind |-> "SinglePiece", piece |-> piece]
TrueRandomKind == [kind |-> "TrueRandom", piece |-> None]
SevenBagKind == [kind |-> "SevenBag", piece |-> None]
LoveTrisKind == [kind |-> "LoveTris", piece |-> None]

DEFAULT_BOT_PPS10 == 18

NoLog == [locks |-> <<>>, moved |-> {}, rotated |-> {}, held |-> {},
          restored |-> {}, drawn |-> [i \in {0, 1} |-> <<>>],
          das |-> {}, shifts |-> [i \in {0, 1} |-> <<>>],
          repeated |-> [i \in {0, 1} |-> 0],
          falls |-> [i \in {0, 1} |-> 0], blocked |-> {},
          grav |-> [i \in {0, 1} |-> <<>>],
          refills |-> [i \in {0, 1} |-> 0], pops |-> [i \in {0, 1} |-> <<>>]]
NoRng == [picks |-> <<>>, perms |-> <<>>, holes |-> <<>>, cols |-> <<>>]

versus_new(settings, pps10, kinds, rng) ==
  LET v == [players |-> [i \in {0, 1} |-> NewPlayerShell(kinds[i + 1])],
            controllers |-> [i \in {0, 1} |-> NewController],
            settings |-> settings,
            bot_driver |-> [pps10 |-> pps10, think_timer |-> 0],
            use_internal_bot |-> FALSE,
            fall_accum |-> [i \in {0, 1} |-> 0],
            stats |-> [i \in {0, 1} |->
                        [time_ms |-> 0, pieces |-> 0, keys |-> 0,
                         attack |-> 0, lines_sent |-> 0]],
            last_inputs |-> [i \in {0, 1} |-> DefaultInput],
            rng |-> rng, log |-> NoLog]
  IN new_player(new_player(v, 0), 1)

(***************************************************************************)
(* The state machine.  The variables are the fields of Versus; ev says     *)
(* what the last operation was and what it did; script is the rest of the  *)
(* scripted opening of this run and ops counts the operations made after   *)
(* it.                                                                     *)
(***************************************************************************)
VARIABLES players, controllers, settings, bot_driver, use_internal_bot,
          fall_accum, stats, last_inputs, ev, script, ops

vars == <<players, controllers, settings, bot_driver, use_internal_bot,
          fall_accum, stats, last_inputs, ev, script, ops>>

\* The engine as a record, with the draws rng of the operation to come.
Cur(rng) ==
  [players |-> players, controllers |-> controllers, settings |-> settings,
   bot_driver |-> bot_driver, use_internal_bot |-> use_internal_bot,
   fall_accum |-> fall_accum, stats |-> stats, last_inputs |-> last_inputs,
   rng |-> rng, log |-> NoLog]

Install(v) ==
  /\ players' = v.players
  /\ controllers' = v.controllers
  /\ settings' = v.settings
  /\ bot_driver' = v.bot_driver
  /\ use_internal_bot' = v.use_internal_bot
  /\ fall_accum' = v.fall_accum
  /\ stats' = v.stats
  /\ last_inputs' = v.last_inputs

\* topped0: the players that were topped out when the operation was called;
\* queue0, hold0: each player's queue length and hold slot at that time;
\* refills, pops: the refill_queue calls of the operation and the queue
\* length before each removal of the queue's head; drawn: the pieces the
\* randomizers returned during the operation;
\* mv: the move of an apply_tbp_move call; restores: how often a shift or
\* rotation has restored the lock timer of player 0's piece; dir, held_ms,
\* repeated: the direction player 0 holds, for how long it has held it and
\* how many auto-repeat shifts have succeeded since it changed (restores,
\* dir, held_ms and repeated are counted under SpecStall).
Event(op, idx, dt, res, out, log) ==
  [op |-> op, idx |-> idx, dt |-> dt, res |-> res, out |-> out, mv |-> None,
   restores |-> 0, dir |-> 0, held_ms |-> 0, repeated |-> 0,
   locks |-> log.locks, moved |-> log.moved, rotated |-> log.rotated,
   held |-> log.held, refills |-> log.refills, pops |-> log.pops,
   drawn |-> log.drawn,
   queue0 |-> [i \in {0, 1} |-> Len(players[i].queue)],
   hold0 |-> [i \in {0, 1} |-> players[i].hold],
   topped0 |-> {i \in {0, 1} : players[i].topped_out}]

\* The operation op left the engine as v.
Commit(v, op, idx, dt, res, out) ==
  /\ Install(v)
  /\ ev' = Event(op, idx, dt, res, out, v.log)

(***************************************************************************)
(* Random draws.  An operation is first run on placeholder draws to learn  *)
(* how many draws of each kind it makes (the number does not depend on the *)
(* values drawn); the action then ranges over every value of exactly those *)
(* draws.                                                                  *)
(***************************************************************************)
PickPool == Pieces
HoleCols == {0, 4}
BagOrder == <<"I", "J", "L", "O", "S", "Z", "T">>
PermPool == {BagOrder}

\* The columns the bot's shuffle can make it pick (none is drawn while the
\* internal bot is off).
BotCols == IF use_internal_bot THEN safe_columns(players[1].board) ELSE {0}

ProbeCols == <<CHOOSE c \in BotCols : TRUE>>

ProbeRng0 ==
  [picks |-> [i \in 1..8 |-> "I"], perms |-> <<BagOrder, BagOrder>>,
   holes |-> <<0, 0>>, cols |-> <<>>]

ProbeRng == [ProbeRng0 EXCEPT !.cols = ProbeCols]

\* The draws an operation can make, given what its run on ProbeRng left over.
Draws(left) ==
  [picks : [1..(8 - Len(left.picks)) -> PickPool],
   perms : [1..(2 - Len(left.perms)) -> PermPool],
   holes : [1..(2 - Len(left.holes)) -> HoleCols],
   cols : [1..(1 - Len(left.cols)) -> BotCols]]

(***************************************************************************)
(* Bounds and inputs of the model.  A run starts at the state Versus::new  *)
(* builds, makes the calls of one scripted opening (bot-protocol moves     *)
(* that set up a position) and then at most MaxOps calls drawn from the    *)
(* input sets below.                                                       *)
(***************************************************************************)
MaxOps == 2

Mv(idx, piece, orientation, x, y) ==
  [op |-> "move", idx |-> idx,
   mv |-> [piece |-> piece, orientation |-> orientation, x |-> x, y |-> y]]

\* Six upright I pieces leave a four-wide, four-deep well under the spawn
\* columns 3..6.
WellScript ==
  <<Mv(0, "I", "West", 0, 2), Mv(0, "I", "West", 1, 2), Mv(0, "I", "West", 2, 2),
    Mv(0, "I", "West", 7, 2), Mv(0, "I", "West", 8, 2), Mv(0, "I", "West", 9, 2)>>

\* A T placed right under the spawn row: the next piece spawns on the ground.
SpikeScript == <<Mv(0, "T", "North", 4, 17)>>

\* Player 1 locks a piece in the buffer rows of an empty board, which sends
\* the perfect-clear attack to player 0.
GarbageScript == <<Mv(1, "T", "North", 4, 25)>>

\* ... and player 0 then locks a piece whose top cell is on row 9.
SpillScript == GarbageScript \o <<Mv(0, "T", "North", 4, 8)>>

\* A second T locked where it spawns: the next spawn collides (top-out).
ToppedScript == SpikeScript \o <<Mv(0, "T", "North", 4, 19)>>

Scenarios ==
  {[kinds |-> <<SinglePieceKind("T"), SinglePieceKind("T")>>, script |-> <<>>],
   [kinds |-> <<SinglePieceKind("T"), SinglePieceKind("T")>>, script |-> ToppedScript],
   [kinds |-> <<SinglePieceKind("T"), SinglePieceKind("T")>>, script |-> SpikeScript],
   [kinds |-> <<SinglePieceKind("I"), SinglePieceKind("I")>>, script |-> WellScript],
   [kinds |-> <<SinglePieceKind("T"), SinglePieceKind("T")>>, script |-> GarbageScript],
   [kinds |-> <<SinglePieceKind("T"), SinglePieceKind("T")>>, script |-> SpillScript]}

DtChoices == {100, 20000}

Keys == {"left", "right", "soft_drop", "hard_drop", "rotate_ccw", "rotate_cw",
         "rotate_180", "hold"}

Pressed(ks) == [k \in Keys |-> k \in ks]

FrameChoices ==
  {Pressed({})} \cup {Pressed({k}) : k \in Keys}
  \cup {Pressed({"rotate_cw", "left"}), Pressed({"hard_drop", "rotate_cw"})}

MoveChoices ==
  {[piece |-> "T", orientation |-> "North", x |-> 4, y |-> 0],
   [piece |-> "I", orientation |-> "North", x |-> 4, y |-> 0],
   [piece |-> "T", orientation |-> "North", x |-> 4, y |-> 18],
   [piece |-> "I", orientation |-> "East", x |-> 4, y |-> 19],
   [piece |-> "T", orientation |-> "North", x |-> 12, y |-> 0],
   [piece |-> "T", orientation |-> Unknown, x |-> 4, y |-> 0],
   [piece |-> Unknown, orientation |-> "North", x |-> 4, y |-> 0]}

KindChoices == {SinglePieceKind("T"), SinglePieceKind("I")}

IdxChoices == {0, 1, 2}

\* The moves on offer: the scripted one during the opening; an index that
\* names no player is tried with one move.
MoveInputs ==
  IF script # <<>> THEN {<<Head(script).idx, Head(script).mv>>}
  ELSE ({0, 1} \X MoveChoices)
       \cup {<<2, [piece |-> "T", orientation |-> "North", x |-> 4, y |-> 0]>>}

Free == script = <<>> /\ ops < MaxOps

Advance ==
  IF script # <<>> THEN script' = Tail(script) /\ ops' = ops
  ELSE script' = script /\ ops' = ops + 1

(***************************************************************************)
(* Init: Versus::new with the scenario's randomizers.                      *)
(***************************************************************************)
Constructed(v) ==
  /\ players = v.players
  /\ controllers = v.controllers
  /\ settings = v.settings
  /\ bot_driver = v.bot_driver
  /\ use_internal_bot = v.use_internal_bot
  /\ fall_accum = v.fall_accum
  /\ stats = v.stats
  /\ last_inputs = v.last_inputs

Started(scenarios) ==
  \E sc \in scenarios :
    LET probe == versus_new(DefaultSettings, DEFAULT_BOT_PPS10, sc.kinds,
                            ProbeRng0)
    IN \E picks \in [1..(8 - Len(probe.rng.picks)) -> PickPool],
          perms \in [1..(2 - Len(probe.rng.perms)) -> PermPool] :
         /\ Constructed(versus_new(DefaultSettings, DEFAULT_BOT_PPS10, sc.kinds,
                                   [NoRng EXCEPT !.picks = picks, !.perms = perms]))
         /\ ev = Event("new", 0, 0, "ok", NoResult, NoLog)
         /\ script = sc.script
         /\ ops = 0

Init == Started(Scenarios)

(***************************************************************************)
(* Actions: one per operation of the engine.                               *)
(***************************************************************************)
\* Versus::tick(dt_ms, input0)
TickDraws(probe, dt_ms, input0) ==
  \E rng \in Draws(probe.rng) :
    Commit(IF rng = NoRng THEN probe ELSE tick(Cur(rng), dt_ms, input0),
           "tick", 0, dt_ms, "ok", NoResult)

Tick(dt_ms, input0) ==
  /\ Free
  /\ TickDraws(tick(Cur(ProbeRng), dt_ms, input0), dt_ms, input0)
  /\ Advance

CommitMove(r, idx, mv) ==
  /\ Install(r.v)
  /\ ev' = [Event("move", idx, 0, r.res, r.out, r.v.log) EXCEPT !.mv = mv]

MoveDraws(probe, idx, mv) ==
  \E rng \in Draws(probe.v.rng) :
    CommitMove(IF rng = NoRng THEN probe ELSE apply_tbp_move(Cur(rng), idx, mv),
               idx, mv)

\* Versus::apply_tbp_move(idx, mv)
ApplyMove(idx, mv) ==
  /\ script # <<>> \/ Free
  /\ MoveDraws(apply_tbp_move(Cur(ProbeRng), idx, mv), idx, mv)
  /\ Advance

RandomizerDraws(probe, player, kind) ==
  \E rng \in Draws(probe.rng) :
    Commit(IF rng = NoRng THEN probe ELSE set_randomizer(Cur(rng), player, kind),
           "rand", player, 0, "ok", NoResult)

\* Versus::set_randomizer(player, kind)
SetRandomizer(player, kind) ==
  /\ Free
  /\ RandomizerDraws(set_randomizer(Cur(ProbeRng), player, kind), player, kind)
  /\ Advance

\* GameClient::set_internal_bot_enabled(enabled)
SetInternalBotEnabled(enabled) ==
  /\ Free
  /\ Commit(set_internal_bot_enabled(Cur(NoRng), enabled),
            "bot", 0, 0, "ok", NoResult)
  /\ Advance

Next ==
  \/ \E dt_ms \in DtChoices, input0 \in FrameChoices : Tick(dt_ms, input0)
  \/ \E im \in MoveInputs : ApplyMove(im[1], im[2])
  \/ \E player \in IdxChoices, kind \in KindChoices : SetRandomizer(player, kind)
  \/ \E enabled \in BOOLEAN : SetInternalBotEnabled(enabled)

Spec == Init /\ [][Next]_vars

(***************************************************************************)
(* The bot protocol on its own: apply_tbp_move after a scripted opening,   *)
(* with a wider choice of placements and a seven-bag opening whose queue   *)
(* holds different pieces.                                                 *)
(***************************************************************************)
\* The bag order gives T first, then Z: this move takes Z from the queue and
\* leaves T in the hold slot.
SevenScript == <<Mv(0, "Z", "North", 4, 0)>>

MoveScenarios ==
  Scenarios \cup {[kinds |-> <<SevenBagKind, SevenBagKind>>, script |-> SevenScript]}

PlacementChoices ==
  MoveChoices \cup
  {[piece |-> "I", orientation |-> "South", x |-> 4, y |-> 10],
   [piece |-> "I", orientation |-> "West", x |-> 4, y |-> 10],
   [piece |-> "T", orientation |-> "East", x |-> 4, y |-> 1],
   [piece |-> "T", orientation |-> "South", x |-> 4, y |-> 0],
   [piece |-> "S", orientation |-> "North", x |-> 7, y |-> 0],
   [piece |-> "O", orientation |-> "North", x |-> 1, y |-> 0]}

PlacementInputs ==
  IF script # <<>> THEN {<<Head(script).idx, Head(script).mv>>}
  ELSE {0, 1} \X PlacementChoices

InitMove == Started(MoveScenarios)

NextMove == \E im \in PlacementInputs : ApplyMove(im[1], im[2])

SpecMove == InitMove /\ [][NextMove]_vars

(***************************************************************************)
(* Stalling: short ticks with left and right presses on a piece that       *)
(* spawned on the ground, next to a drop.  ev.restores counts the ticks in *)
(* which a shift restored the lock timer of the piece in play; ev.held_ms  *)
(* and ev.repeated follow the direction player 0 holds.                    *)
(***************************************************************************)
MaxStallTicks == 20

StallDts == {10}

StallFrames == {Pressed({}), Pressed({"left"}), Pressed({"right"})}

StallScenarios ==
  {[kinds |-> <<SinglePieceKind("T"), SinglePieceKind("T")>>, script |-> SpikeScript]}

InitStall == Started(StallScenarios)

\* The opening move of the scenario.
StallOpening ==
  /\ script # <<>>
  /\ ApplyMove(Head(script).idx, Head(script).mv)

StallCommit(v, dt_ms, input0) ==
  LET d == input_dir(input0) IN
  /\ Install(v)
  /\ ev' = [Event("tick", 0, dt_ms, "ok", NoResult, v.log) EXCEPT
              !.restores = IF v.log.locks # <<>> THEN 0
                           ELSE IF 0 \in v.log.restored THEN ev.restores + 1
                           ELSE ev.restores,
              !.dir = d,
              !.held_ms = IF d = 0 THEN 0
                          ELSE IF d # ev.dir THEN dt_ms
                          ELSE ev.held_ms + dt_ms,
              !.repeated = IF d = 0 \/ d # ev.dir THEN v.log.repeated[0]
                           ELSE ev.repeated + v.log.repeated[0]]

\* Versus::tick(dt_ms, input0), counting the restores.
StallTick(dt_ms, input0) ==
  /\ script = <<>>
  /\ ops < MaxStallTicks
  /\ StallCommit(tick(Cur(NoRng), dt_ms, input0), dt_ms, input0)
  /\ ops' = ops + 1
  /\ script' = script

NextStall ==
  \/ StallOpening
  \/ \E dt_ms \in StallDts, input0 \in StallFrames : StallTick(dt_ms, input0)

SpecStall == InitStall /\ [][NextStall]_vars

(***************************************************************************)
(* The active-piece operations on their own: try_hold, try_rotate and      *)
(* try_shift applied to the piece a new engine spawns, for every piece and *)
(* for a seven-bag queue, and to a T and an O that spawn on top of a       *)
(* locked piece.  ev keeps the players the call started from (pre), the    *)
(* players that had held before it (before) and, for a rotation, the kick  *)
(* candidates of its first quarter turn, its direction and what it         *)
(* returned.                                                               *)
(***************************************************************************)
MaxPieceOps == 3

\* An O locked right under the spawn row: the next O spawns on the ground.
BlockScript == <<Mv(0, "O", "North", 4, 17)>>

PieceScenarios ==
  {[kinds |-> <<SinglePieceKind(p), SinglePieceKind(p)>>, script |-> <<>>] :
     p \in Pieces}
  \cup {[kinds |-> <<SevenBagKind, SevenBagKind>>, script |-> <<>>],
        [kinds |-> <<SinglePieceKind("T"), SinglePieceKind("T")>>,
         script |-> SpikeScript],
        [kinds |-> <<SinglePieceKind("O"), SinglePieceKind("O")>>,
         script |-> BlockScript]}

InitPiece == Started(PieceScenarios)

\* The opening move of the scenario.
PieceOpening ==
  /\ script # <<>>
  /\ ApplyMove(Head(script).idx, Head(script).mv)

Holders == IF ev.op \in {"new", "move"} THEN {} ELSE ev.holders

PieceEvent(op, idx, holders, to) ==
  [op |-> op, idx |-> idx, pre |-> players, before |-> Holders,
   holders |-> holders,
   piece |-> players[idx].active.piece,
   from |-> players[idx].active.rotation, to |-> to,
   kicks |-> kicks(players[idx].active.piece, players[idx].active.rotation, to),
   cw |-> TRUE, double |-> FALSE, ok |-> TRUE]

PieceStep ==
  script = <<>> /\ ops < MaxPieceOps /\ ops' = ops + 1 /\ script' = script

HoldDraws(probe, idx) ==
  \E rng \in Draws(probe.rng) :
    Install(IF rng = NoRng THEN probe ELSE try_hold(Cur(rng), idx))

\* Versus::try_hold(idx)
Hold(idx) ==
  /\ PieceStep
  /\ HoldDraws(try_hold(Cur(ProbeRng), idx), idx)
  /\ ev' = PieceEvent("hold", idx, Holders \cup {idx}, players[idx].active.rotation)

\* Versus::try_rotate(idx, cw, double)
RotateCommit(r, idx, cw, double) ==
  /\ Install(r.v)
  /\ ev' = [PieceEvent("rotate", idx, Holders,
                       IF cw THEN rotate_cw(players[idx].active.rotation)
                       ELSE rotate_ccw(players[idx].active.rotation))
              EXCEPT !.cw = cw, !.double = double, !.ok = r.ok]

Rotate(idx, cw, double) ==
  /\ PieceStep
  /\ RotateCommit(try_rotate(Cur(NoRng), idx, cw, double), idx, cw, double)

\* Versus::try_shift(idx, dir)
Shift(idx, dir) ==
  /\ PieceStep
  /\ Install(try_shift(Cur(NoRng), idx, dir).v)
  /\ ev' = PieceEvent("shift", idx, Holders, players[idx].active.rotation)

NextPiece ==
  \/ PieceOpening
  \/ \E idx \in {0, 1} : Hold(idx)
  \/ \E idx \in {0, 1}, cw \in BOOLEAN, double \in BOOLEAN : Rotate(idx, cw, double)
  \/ \E idx \in {0, 1}, dir \in {-1, 1} : Shift(idx, dir)

SpecPiece == InitPiece /\ [][NextPiece]_vars

(***************************************************************************)
(* Lock resolution on its own: Versus::on_piece_locked applied once to an  *)
(* engine whose locking player has a combo, a back-to-back flag, pending   *)
(* garbage and a board drawn from the sets below, with every outcome       *)
(* (cleared, is_t_spin) Player::lock_piece can report.  ev keeps the       *)
(* players and stats the call started from.                                *)
(***************************************************************************)
MaxLocks == 1

LockCombos == {0, 1, 2, 12, 13}
LockPending == {0, 1, 4, 12}
OppPending == {0, 3}

\* Boards as a lock leaves them: empty, a T on the floor, a T on row 18, a T
\* on row 38 (placed in the buffer through the bot protocol).
FloorBoard == board_lock_piece(NewBoard, 4, 0, shape_blocks("T", "Spawn"), color_id("T"))
TallBoard == board_lock_piece(NewBoard, 4, 18, shape_blocks("T", "Spawn"), color_id("T"))
CeilingBoard == board_lock_piece(NewBoard, 4, 38, shape_blocks("T", "Spawn"), color_id("T"))
LockBoards == {NewBoard, FloorBoard, TallBoard, CeilingBoard}

\* A T-spin is reported only with a clear, and a T spans at most three rows.
LockOutcomes ==
  {oc \in (0..4) \X BOOLEAN : oc[2] => oc[1] \in 1..3}

InitLock ==
  \E combo \in LockCombos, b2b \in BOOLEAN, pending \in LockPending,
     opp \in OppPending, cells \in LockBoards :
    /\ Constructed(
         [versus_new(DefaultSettings, DEFAULT_BOT_PPS10,
                     <<SinglePieceKind("T"), SinglePieceKind("T")>>, NoRng)
            EXCEPT !.players[0].combo = combo,
                   !.players[0].back_to_back = b2b,
                   !.players[0].pending_garbage = pending,
                   !.players[0].board = cells,
                   !.players[1].pending_garbage = opp])
    /\ ev = [op |-> "init", idx |-> 0, cleared |-> 0, t_spin |-> FALSE,
             pre |-> players, pre_stats |-> stats]
    /\ script = <<>>
    /\ ops = 0

LockDraws(probe, idx, cleared, is_t_spin) ==
  \E rng \in Draws(probe.rng) :
    Install(IF rng = NoRng THEN probe
            ELSE on_piece_locked(Cur(rng), idx, cleared, is_t_spin))

\* Versus::on_piece_locked(idx, cleared, is_t_spin)
OnPieceLocked(idx, cleared, is_t_spin) ==
  /\ ops < MaxLocks
  /\ LockDraws(on_piece_locked(Cur(ProbeRng), idx, cleared, is_t_spin),
               idx, cleared, is_t_spin)
  /\ ev' = [op |-> "lock", idx |-> idx, cleared |-> cleared,
            t_spin |-> is_t_spin, pre |-> players, pre_stats |-> stats]
  /\ ops' = ops + 1
  /\ script' = script

NextLock ==
  \E idx \in {0, 1}, oc \in LockOutcomes : OnPieceLocked(idx, oc[1], oc[2])

SpecLock == InitLock /\ [][NextLock]_vars

(***************************************************************************)
(* An idle game: ticks of positive length with no key pressed, for as long *)
(* as the clock of player 0 is below MaxIdleMs (the pieces pile up under   *)
(* the spawn position and top the player out well before that).  The       *)
(* ticks keep arriving: ops is 0 or 1 and every tick changes it, and a     *)
(* step that changes it is weakly fair (every tick is such a step, and one *)
(* is possible exactly while the clock is below MaxIdleMs).  ev keeps      *)
(* stats.pieces of player 0 before the tick.                               *)
(***************************************************************************)
MaxIdleMs == 250000

IdleDts == {300, 1000}

IdleScenarios ==
  {[kinds |-> <<SinglePieceKind("T"), SinglePieceKind("T")>>, script |-> <<>>]}

InitIdle == Started(IdleScenarios)

\* Versus::tick(dt_ms, no key pressed)
IdleTick(dt_ms) ==
  /\ stats[0].time_ms < MaxIdleMs
  /\ Install(tick(Cur(NoRng), dt_ms, Pressed({})))
  /\ ev' = [op |-> "idle", idx |-> 0, dt |-> dt_ms, pieces0 |-> stats[0].pieces]
  /\ ops' = 1 - ops
  /\ script' = script

NextIdle == \E dt_ms \in IdleDts : IdleTick(dt_ms)

\* One more tick arrives.
TickArrives == stats[0].time_ms < MaxIdleMs /\ ops' = 1 - ops

SpecIdle == InitIdle /\ [][NextIdle]_vars /\ WF_ops(TickArrives)

(***************************************************************************)
(* Board::clear_lines on its own, applied to the board of player 0.  The   *)
(* boards have, in each of the rows ClearRows (the floor, and both sides   *)
(* of the line between the visible rows and the buffer), an empty row, a   *)
(* full row or a row with one gap; the colour and the gap of a row tell    *)
(* where it was.  ev keeps the board the call started from and the count   *)
(* it returned.                                                            *)
(***************************************************************************)
MaxClears == 2

ClearRows == {0, 1, 2, 19, 20, 21}

RowKinds == {"empty", "gap", "full"}

InputRow(r, kind) ==
  IF kind = "empty" THEN EmptyRow
  ELSE [x \in Cols |-> IF kind = "gap" /\ x = r % WIDTH THEN 0 ELSE (r % 7) + 1]

InitClear ==
  \E kinds \in [ClearRows -> RowKinds] :
    /\ Constructed(
         [versus_new(DefaultSettings, DEFAULT_BOT_PPS10,
                     <<SinglePieceKind("T"), SinglePieceKind("T")>>, NoRng)
            EXCEPT !.players[0].board =
                      [r \in Rows |-> IF r \in ClearRows
                                      THEN InputRow(r, kinds[r]) ELSE EmptyRow]])
    /\ ev = [op |-> "init", cells0 |-> NewBoard, count |-> 0]
    /\ script = <<>>
    /\ ops = 0

\* Board::clear_lines()
ClearLines ==
  /\ ops < MaxClears
  /\ Install([Cur(NoRng) EXCEPT !.players[0].board = clear_lines(@)[1]])
  /\ ev' = [op |-> "clear", cells0 |-> players[0].board,
            count |-> clear_lines(players[0].board)[2]]
  /\ ops' = ops + 1
  /\ script' = script

NextClear == ClearLines

SpecClear == InitClear /\ [][NextClear]_vars

(***************************************************************************)
(* Single frames: a few ticks of player 0 with a choice of frame lengths   *)
(* (0 ms included) and key sets, on a fresh board and on a piece that      *)
(* spawned on the ground.  ev keeps the frame, the engine the tick started *)
(* from (pre) and the whole log of the tick.                               *)
(***************************************************************************)
MaxFrameTicks == 3

FrameDts == {0, 100, 400, 1000}

FrameKeys ==
  {Pressed({}), Pressed({"left"}), Pressed({"right"}), Pressed({"left", "right"}),
   Pressed({"hard_drop"}), Pressed({"rotate_cw"}), Pressed({"hold"}),
   Pressed({"soft_drop"}), Pressed({"hard_drop", "left"})}

FrameScenarios ==
  {[kinds |-> <<SinglePieceKind("T"), SinglePieceKind("T")>>, script |-> <<>>],
   [kinds |-> <<SinglePieceKind("T"), SinglePieceKind("T")>>, script |-> SpikeScript]}

InitFrame == Started(FrameScenarios)

\* The opening move of the scenario.
FrameOpening ==
  /\ script # <<>>
  /\ ApplyMove(Head(script).idx, Head(script).mv)

\* The time for which player 0 has held its direction, summed over the
\* sub-ticks that reached the DAS/ARR section.
Held == IF ev.op = "frame" THEN ev.held ELSE 0

FrameCommit(v, dt_ms, input0) ==
  /\ Install(v)
  /\ ev' = [op |-> "frame", idx |-> 0, dt |-> dt_ms, input |-> input0,
            pre |-> [players |-> players, controllers |-> controllers,
                     fall_accum |-> fall_accum, stats |-> stats,
                     last_inputs |-> last_inputs],
            held |-> IF 0 \notin v.log.das THEN Held
                     ELSE IF input_dir(input0) = 0 THEN 0
                     ELSE IF input_dir(input0) # controllers[0].last_dir THEN dt_ms
                     ELSE Held + dt_ms,
            log |-> v.log]

\* Versus::tick(dt_ms, input0)
FrameTick(dt_ms, input0) ==
  /\ script = <<>>
  /\ ops < MaxFrameTicks
  /\ FrameCommit(tick(Cur(NoRng), dt_ms, input0), dt_ms, input0)
  /\ ops' = ops + 1
  /\ script' = script

NextFrame ==
  \/ FrameOpening
  \/ \E dt_ms \in FrameDts, input0 \in FrameKeys : FrameTick(dt_ms, input0)

SpecFrame == InitFrame /\ [][NextFrame]_vars

(***************************************************************************)
(* The bag randomizers on their own: player 0 draws from a SevenBag or a   *)
(* LoveTris randomizer while it places its pieces through the bot          *)
(* protocol, and may be given a new randomizer once.  ev.drawn keeps, for  *)
(* each player, every piece its randomizer has returned since it was       *)
(* created.                                                                *)
(***************************************************************************)
MaxBagOps == 9

BagPerms == {BagOrder, <<"O", "I", "T", "L", "J", "S", "Z">>}

BagKinds == {SevenBagKind, LoveTrisKind}

BagEvent(op, drawn) == [op |-> op, idx |-> 0, drawn |-> drawn]

BagStarted(v) ==
  /\ Constructed(v)
  /\ ev = BagEvent("new", v.log.drawn)
  /\ script = <<>>
  /\ ops = 0

\* Versus::new: the six draws of player 0 come from one shuffle.
InitBag ==
  \E kind \in BagKinds, perms \in [1..1 -> BagPerms] :
    BagStarted(versus_new(DefaultSettings, DEFAULT_BOT_PPS10,
                          <<kind, SinglePieceKind("T")>>,
                          [NoRng EXCEPT !.perms = perms]))

BagStep == ops < MaxBagOps /\ ops' = ops + 1 /\ script' = script

\* The operation op left the engine as v: its draws are added to the
\* players' draws, or replace them where the randomizer is new.
BagCommit(v, op, fresh) ==
  /\ Install(v)
  /\ ev' = BagEvent(op,
                    [i \in {0, 1} |->
                       IF i \in fresh THEN v.log.drawn[i]
                       ELSE ev.drawn[i] \o v.log.drawn[i]])

\* The shuffles a lock of player 0 can use: spawn_next pops one piece and
\* refills the queue to QUEUE_LEN, which takes a shuffle if the bag holds
\* fewer pieces than that.
BagShuffles ==
  IF Len(players[0].randomizer.bag) < QUEUE_LEN + 1 - Len(players[0].queue)
  THEN [1..1 -> BagPerms] ELSE {<<>>}

\* The active piece, upright, on the floor of column x (or wherever the
\* adapter's fallback puts it once the column is taken).
BagMove(x) ==
  [piece |-> players[0].active.piece, orientation |-> "North", x |-> x, y |-> 0]

\* Versus::apply_tbp_move(0, mv): the lock draws one piece.
BagDrop(x) ==
  /\ BagStep
  /\ \E perms \in BagShuffles :
       BagCommit(apply_tbp_move(Cur([NoRng EXCEPT !.perms = perms]), 0,
                                BagMove(x)).v,
                 "move", {})

\* Versus::set_randomizer(0, kind) on the engine as constructed, whose first
\* bag still holds a piece: the randomizer is new, its draws start again.
BagRandomizer(kind) ==
  /\ BagStep
  /\ ev.op = "new"
  /\ \E perms \in [1..1 -> BagPerms] :
       BagCommit(set_randomizer(Cur([NoRng EXCEPT !.perms = perms]), 0, kind),
                 "rand", {0})

NextBag ==
  \/ \E x \in {4} : BagDrop(x)
  \/ \E kind \in BagKinds : BagRandomizer(kind)

SpecBag == InitBag /\ [][NextBag]_vars

(***************************************************************************)
(* Properties.                                                             *)
(***************************************************************************)
\* The four cells of player i's active piece.
ActiveCells(i) ==
  LET a == players[i].active
      shape == shape_blocks(a.piece, a.rotation)
  IN {<<a.x + shape[k][1], a.y + shape[k][2]>> : k \in 1..4}

\* A cell inside the board that is not on a non-empty visible cell.
CellFree(i, c) ==
  /\ c[1] \in Cols
  /\ c[2] \in Rows
  /\ c[2] < VISIBLE_HEIGHT => players[i].board[c[2]][c[1]] = 0

\* C1: at the end of every tick, successful apply_move and set_randomizer
\* call, for each player that is not topped out, none of the four cells of
\* the active piece is out of bounds or on a non-empty visible cell of that
\* player's board.
C1_ActivePieceFree ==
  (ev.op \in {"tick", "move", "rand"} /\ ev.res = "ok") =>
    \A i \in {0, 1} :
      ~players[i].topped_out => \A c \in ActiveCells(i) : CellFree(i, c)

\* C2: a tick called while either player is topped out changes nothing:
\* players (boards, active pieces, queues, holds, pending garbage, combo,
\* back-to-back), stats, controllers, fall accumulators, the last inputs and
\* the bot's timer are the same before and after.
C2_ToppedTickNoOp ==
  [][(ev'.op = "tick" /\ (players[0].topped_out \/ players[1].topped_out)) =>
       /\ players' = players
       /\ stats' = stats
       /\ controllers' = controllers
       /\ fall_accum' = fall_accum
       /\ last_inputs' = last_inputs
       /\ bot_driver' = bot_driver]_vars

\* A tick was called on an engine with a topped-out player.
C2_Witness == ev.op = "tick" /\ ev.topped0 # {} /\ ev.dt > 0

\* C3: once a player's topped_out flag is true it is true after every later
\* operation.
C3_NoResurrection ==
  [][\A i \in {0, 1} : players[i].topped_out => players'[i].topped_out]_vars

\* set_randomizer, which spawns a new piece, was called for a player that
\* was topped out.
C3_Witness ==
  ev.op = "rand" /\ ev.idx \in ev.topped0 /\ players[ev.idx].topped_out

(***************************************************************************)
(* The attack of a lock as the specification states it, for the lock ev    *)
(* records under SpecLock.                                                 *)
(***************************************************************************)
LockPre == ev.pre[ev.idx]

StatedBase ==
  IF ev.t_spin THEN <<2, 4, 6>>[ev.cleared]
  ELSE <<0, 0, 1, 2, 4>>[Min(ev.cleared, 4) + 1]

StatedComboAfter == IF ev.cleared > 0 THEN LockPre.combo + 1 ELSE 0

StatedComboBonus ==
  IF StatedComboAfter = 0 THEN 0
  ELSE <<0, 0, 1, 1, 1, 2, 2, 3, 3, 4, 4, 4, 5>>[Min(StatedComboAfter - 1, 12) + 1]

StatedB2B == IF LockPre.back_to_back /\ ev.cleared >= 4 THEN 1 ELSE 0

StatedPC ==
  IF \A y \in 0..(VISIBLE_HEIGHT - 1) : \A x \in Cols : LockPre.board[y][x] = 0
  THEN 10 ELSE 0

\* What the lock added to stats.attack, and what it left after cancellation.
LockAttack == stats[ev.idx].attack - ev.pre_stats[ev.idx].attack
LockCancelled == Min(LockPre.pending_garbage, LockAttack)
LockNet == LockAttack - LockCancelled

\* C4: every lock resolution adds base + combo_bonus + b2b + pc to
\* stats.attack of the locking player, with the combo bonus taken at the
\* combo after this lock's update.
C4_AttackFormula ==
  ev.op = "lock" =>
    LockAttack = StatedBase + StatedComboBonus + StatedB2B + StatedPC

\* A quad with back-to-back on a combo of 13 that leaves the board empty.
C4_Witness ==
  /\ ev.op = "lock" /\ ev.cleared = 4 /\ LockPre.back_to_back
  /\ LockPre.combo = 12 /\ LockAttack = 20

\* C5: a lock with attack A and pending garbage P takes min(P, A) off the
\* locking player's pending garbage, and adds exactly A - min(P, A) to the
\* opponent's pending garbage and to the locking player's lines_sent.
C5_CancelThenDeliver ==
  ev.op = "lock" =>
    /\ players[Opp(ev.idx)].pending_garbage =
         ev.pre[Opp(ev.idx)].pending_garbage + LockNet
    /\ stats[ev.idx].lines_sent = ev.pre_stats[ev.idx].lines_sent + LockNet
    /\ ev.cleared > 0 =>
         players[ev.idx].pending_garbage = LockPre.pending_garbage - LockCancelled

\* An attack larger than the pending garbage: part cancels, the rest is sent.
C5_Witness ==
  /\ ev.op = "lock" /\ ev.cleared > 0
  /\ LockPre.pending_garbage > 0 /\ LockAttack > LockPre.pending_garbage
  /\ ev.pre[Opp(ev.idx)].pending_garbage > 0

\* The board cells with n garbage rows pushed in from the floor.
WithGarbage(cells, n, hole) ==
  [y \in Rows |->
     IF y < n THEN [x \in Cols |-> IF x = hole THEN 0 ELSE GARBAGE]
     ELSE cells[y - n]]

\* C6: after a lock that clears no line the locking player's pending garbage
\* is 0 and the garbage left after cancellation is in the board as garbage
\* rows; after a lock that clears a line the board has no new garbage row and
\* the garbage left after cancellation stays pending.
C6_Spill ==
  ev.op = "lock" =>
    IF ev.cleared = 0
    THEN /\ players[ev.idx].pending_garbage = 0
         /\ \E hole \in Cols :
              players[ev.idx].board =
                WithGarbage(LockPre.board, LockPre.pending_garbage - LockCancelled, hole)
    ELSE /\ players[ev.idx].board = LockPre.board
         /\ players[ev.idx].pending_garbage = LockPre.pending_garbage - LockCancelled

\* A lock without a clear spilled four rows under the blocks of the board.
C6_Witness ==
  /\ ev.op = "lock" /\ ev.cleared = 0 /\ LockPre.pending_garbage = 4
  /\ LockAttack = 0
  /\ players[ev.idx].board # LockPre.board
  /\ players[ev.idx].board[4][4] # 0

\* The lock of player i in the operation that led to the next state, if any.
LockedNext(i) == {k \in DOMAIN ev'.locks : ev'.locks[k].idx = i}

\* C7: a lock (by hard drop, lock delay or apply_move) sets the locking
\* player's combo to 0 if it cleared no line and to the previous combo plus 1
\* if it cleared a line; an operation in which a player locks no piece leaves
\* that player's combo as it was.
C7_Combo ==
  [][\A i \in {0, 1} :
       IF LockedNext(i) = {} THEN players'[i].combo = players[i].combo
       ELSE \A k \in LockedNext(i) :
              players'[i].combo =
                IF ev'.locks[k].cleared = 0 THEN 0 ELSE players[i].combo + 1]_vars

\* A second clear in a row: the combo went from 1 to 2.
C7_Witness ==
  \E k \in DOMAIN ev.locks :
    /\ ev.locks[k].combo0 = 1 /\ ev.locks[k].cleared > 0
    /\ players[ev.locks[k].idx].combo = 2

\* C8: the back-to-back bonus is in a lock's attack only when the flag was
\* true before the lock and the lock cleared at least 4 lines; after every
\* lock the flag is (cleared >= 4).
C8_BackToBack ==
  ev.op = "lock" =>
    /\ players[ev.idx].back_to_back = (ev.cleared >= 4)
    /\ LockAttack - (StatedBase + StatedComboBonus + StatedPC) =
         (IF LockPre.back_to_back /\ ev.cleared >= 4 THEN 1 ELSE 0)

\* A T-spin double with the flag set: no bonus, and the flag is cleared.
C8_Witness ==
  /\ ev.op = "lock" /\ ev.t_spin /\ ev.cleared = 2 /\ LockPre.back_to_back
  /\ ~players[ev.idx].back_to_back

\* C9: after a tick in which a shift of player 0 succeeded (the shift comes
\* after the rotations; no hold and no lock followed), last_action_was_t_spin
\* is false.
C9_ShiftClearsTSpin ==
  (ev.op = "tick" /\ 0 \in ev.moved /\ 0 \notin ev.held /\ ev.locks = <<>>) =>
    ~players[0].last_action_was_t_spin

\* C10: across a tick that advances player 0 (nobody topped out), keeps its
\* piece (no lock, no hold) and ends with it on the ground: if no shift or
\* rotation succeeded lock_timer drops by dt; if one succeeded and
\* move_resets > 0, lock_timer is back at 500 ms and move_resets is one less.
C10_LockDelay ==
  [][(/\ ev'.op = "tick" /\ ev'.topped0 = {}
      /\ ev'.locks = <<>> /\ 0 \notin ev'.held
      /\ collision(players'[0].board, [players'[0].active EXCEPT !.y = @ - 1])) =>
       IF 0 \in ev'.moved \cup ev'.rotated
       THEN players[0].active.move_resets > 0 =>
              /\ players'[0].active.lock_timer = LOCK_DELAY_MS
              /\ players'[0].active.move_resets = players[0].active.move_resets - 1
       ELSE players'[0].active.lock_timer = players[0].active.lock_timer - ev'.dt]_vars

\* The part of C10 that holds: without a successful shift or rotation the
\* timer drops by dt.
C10_QuietTick ==
  [][(/\ ev'.op = "tick" /\ ev'.topped0 = {}
      /\ ev'.locks = <<>> /\ 0 \notin ev'.held
      /\ 0 \notin ev'.moved \cup ev'.rotated
      /\ collision(players'[0].board, [players'[0].active EXCEPT !.y = @ - 1])) =>
       players'[0].active.lock_timer = players[0].active.lock_timer - ev'.dt]_vars

\* C13: a hold happens in a tick only if the hold input is true in this
\* tick's frame and was false in the frame of the tick before.
C13_HoldOnEdge ==
  [][(ev'.op = "tick" /\ 0 \in ev'.held) =>
       (last_inputs'[0].hold /\ ~last_inputs[0].hold)]_vars

RotateKeys == {"rotate_cw", "rotate_ccw", "rotate_180"}

\* C14: a rotation happens in a tick only if one of the rotate inputs is true
\* in this tick's frame and was false in the frame of the tick before.
C14_RotateOnEdge ==
  [][(ev'.op = "tick" /\ 0 \in ev'.rotated) =>
       \E k \in RotateKeys : last_inputs'[0][k] /\ ~last_inputs[0][k]]_vars

\* The lowest row piece a reaches by falling straight down from where it is.
StatedLanding(cells, a) ==
  CHOOSE y \in 0..a.y :
    /\ collision(cells, [a EXCEPT !.y = y - 1])
    /\ \A z \in y..(a.y - 1) : ~collision(cells, [a EXCEPT !.y = z])

\* Player i is advanced by the operation to come and its hard_drop input rises.
HardDropRises(i) ==
  /\ ev'.op = "tick" /\ ev'.topped0 = {}
  /\ i = 1 => use_internal_bot
  /\ last_inputs'[i].hard_drop /\ ~last_inputs[i].hard_drop

\* C15: in a tick where hard_drop rises the piece is locked in the column
\* and orientation it had, at the lowest row it reaches by falling straight
\* down; the new piece is as it spawned, the hold slot and the DAS state are
\* untouched (no rotate, shift or hold ran) and the fall accumulator is 0.
C15_HardDropFirst ==
  [][\A i \in {0, 1} : HardDropRises(i) =>
       /\ \E k \in DOMAIN ev'.locks :
            /\ ev'.locks[k].idx = i /\ ev'.locks[k].via = "hard"
            /\ ev'.locks[k].at =
                 [players[i].active EXCEPT
                    !.y = StatedLanding(players[i].board, players[i].active)]
       /\ players'[i].active = NewActivePiece(Head(players[i].queue))
       /\ players'[i].hold = players[i].hold
       /\ i \notin ev'.rotated \cup ev'.moved \cup ev'.held
       /\ controllers'[i] = [controllers[i] EXCEPT !.inputs = last_inputs'[i],
                                                   !.last_hard_drop = TRUE]
       /\ fall_accum'[i] = 0]_vars

\* A frame with hard_drop and rotate_cw dropped the piece from the spawn row
\* to the floor.
C15_Witness ==
  /\ ev.op = "tick" /\ last_inputs[0].hard_drop /\ last_inputs[0].rotate_cw
  /\ \E k \in DOMAIN ev.locks :
       /\ ev.locks[k].via = "hard" /\ ev.locks[k].idx = 0
       /\ ev.locks[k].at.y = 0 /\ ev.locks[k].at.rotation = "Spawn"

\* What of player 1 only its own sub-tick and the bot protocol may change.
Driven(p) ==
  <<p.board, p.active, p.queue, p.hold, p.held_on_turn, p.combo,
    p.back_to_back, p.topped_out>>

\* C16: with the internal bot off, an operation other than apply_move(1, ..)
\* and set_randomizer(1, ..) leaves player 1's board, active piece, queue,
\* hold, held-this-turn flag, combo, back-to-back and topped-out flag alone.
C16_BotOffPlayer1 ==
  [][(~use_internal_bot /\ ~(ev'.op \in {"move", "rand"} /\ ev'.idx = 1)) =>
       Driven(players'[1]) = Driven(players[1])]_vars

\* A long tick with the bot off in which player 0 fell and locked.
C16_Witness ==
  /\ ev.op = "tick" /\ ev.dt = 20000 /\ ev.topped0 = {} /\ ~use_internal_bot
  /\ \E k \in DOMAIN ev.locks : ev.locks[k].idx = 0 /\ ev.locks[k].via = "delay"

(***************************************************************************)
(* apply_tbp_move, under SpecMove.                                         *)
(***************************************************************************)
\* The move to come is a placement by a player still in play of a known
\* piece other than the active one.
SelectsOther(i) ==
  /\ ev'.op = "move" /\ ev'.idx = i /\ ~players[i].topped_out
  /\ ev'.mv.piece \notin {Unknown, players[i].active.piece}

\* The piece the move placed: the one it locked or, when it failed after the
\* selection, the one it left active.
PlacedPiece(i) ==
  IF ev'.res = "ok" THEN ev'.locks[1].at.piece ELSE players'[i].active.piece

IsPrefix(a, b) == Len(a) <= Len(b) /\ a = SubSeq(b, 1, Len(a))

\* C17: a move whose piece is not the active one swaps active and held piece
\* if it names the held piece; otherwise, if it names queue[0] and no hold
\* was used this turn, the active piece goes to hold and queue[0] is taken,
\* popped and the queue refilled; otherwise it fails with MoveNotAvailable,
\* locks nothing and changes nothing.
C17_PieceSelection ==
  [][\A i \in {0, 1} : SelectsOther(i) =>
       LET p == players[i] IN
       IF p.hold = ev'.mv.piece THEN
         /\ ev'.res # "MoveNotAvailable"
         /\ PlacedPiece(i) = ev'.mv.piece
         /\ players'[i].hold = p.active.piece
         /\ ev'.res # "ok" => players'[i].queue = p.queue
       ELSE IF p.queue # <<>> /\ Head(p.queue) = ev'.mv.piece /\ ~p.held_on_turn THEN
         /\ ev'.res # "MoveNotAvailable"
         /\ PlacedPiece(i) = ev'.mv.piece
         /\ players'[i].hold = p.active.piece
         /\ IF ev'.res = "ok"
            THEN /\ players'[i].active.piece = p.queue[2]
                 /\ IsPrefix(Tail(Tail(p.queue)), players'[i].queue)
            ELSE IsPrefix(Tail(p.queue), players'[i].queue)
         /\ Len(players'[i].queue) = QUEUE_LEN
       ELSE
         /\ ev'.res = "MoveNotAvailable"
         /\ ev'.locks = <<>>
         /\ players' = players]_vars

\* A move of the held T while S was active: T was locked and S is held.
C17_Witness ==
  /\ ev.op = "move" /\ ev.res = "ok" /\ ev.mv.piece = "T"
  /\ ev.locks[1].at.piece = "T" /\ players[ev.idx].hold = "S"

\* The piece of the move to come at the position the claim states for it:
\* protocol orientation and x with the I-piece correction, at row y.
StatedX(mv) ==
  IF mv.piece = "I" /\ mv.orientation \in {"East", "South"} THEN mv.x - 1
  ELSE mv.x

StatedRotation(mv) ==
  CASE mv.orientation = "North" -> "Spawn"
    [] mv.orientation = "East" -> "Right"
    [] mv.orientation = "South" -> "Reverse"
    [] mv.orientation = "West" -> "Left"

StatedPiece(mv, y) ==
  [NewActivePiece(mv.piece) EXCEPT !.rotation = StatedRotation(mv),
                                   !.x = StatedX(mv), !.y = y]

\* The rows at which the piece of the move is in bounds and collides with
\* nothing.
LegalRows(cells, mv) ==
  {y \in Rows :
     /\ \A c \in 1..4 :
          InBounds(StatedX(mv) + blocks(StatedPiece(mv, y))[c][1],
                   y + blocks(StatedPiece(mv, y))[c][2])
     /\ ~collision(cells, StatedPiece(mv, y))}

\* The move to come gets as far as the placement and collides where it asks
\* to be put.
PlacementCollides(i) ==
  /\ ev'.op = "move" /\ ev'.idx = i
  /\ ev'.res \in {"ok", "PlacementCollision"}
  /\ collision(players[i].board, StatedPiece(ev'.mv, ev'.mv.y))

\* C18: a placement that collides where the move puts it is locked at the
\* lowest row at which it is in bounds and collides with nothing; if there is
\* no such row the call fails with PlacementCollision.
C18_LowestFallback ==
  [][\A i \in {0, 1} : PlacementCollides(i) =>
       LET rows == LegalRows(players[i].board, ev'.mv) IN
       IF rows = {} THEN ev'.res = "PlacementCollision"
       ELSE /\ ev'.res = "ok"
            /\ \A y \in rows : ev'.locks[1].at.y <= y]_vars

\* C19: the piece is tested and locked at x = move.x - 1 exactly when it is
\* an I with orientation East or South, at move.x otherwise; and at y =
\* move.y whenever it does not collide there.
C19_IPieceCorrection ==
  [][\A i \in {0, 1} :
       (ev'.op = "move" /\ ev'.idx = i /\ ev'.res \in {"ok", "PlacementCollision"}) =>
         /\ ev'.res = "PlacementCollision" =>
              /\ players'[i].active.x = StatedX(ev'.mv)
              /\ collision(players[i].board, StatedPiece(ev'.mv, ev'.mv.y))
         /\ ev'.res = "ok" =>
              /\ ev'.locks[1].at.x = StatedX(ev'.mv)
              /\ ev'.locks[1].at.rotation = StatedRotation(ev'.mv)
              /\ ~collision(players[i].board, StatedPiece(ev'.mv, ev'.mv.y)) =>
                   ev'.locks[1].at.y = ev'.mv.y]_vars

\* An I with orientation South, asked for at x = 4, was locked at x = 3 in
\* the row of the move.
C19_Witness ==
  /\ ev.op = "move" /\ ev.res = "ok"
  /\ ev.mv.piece = "I" /\ ev.mv.orientation = "South" /\ ev.mv.x = 4
  /\ ev.locks[1].at.x = 3 /\ ev.locks[1].at.y = ev.mv.y

\* C11: between its spawn and its lock, a shift or rotation restores the
\* lock timer of a piece at most 15 times.
C11_MoveResetBudget == ev.restores <= MOVE_RESETS

SRS_I(from, to) ==
  CASE from = "Spawn" /\ to = "Right" ->
         <<<<0, 0>>, <<-2, 0>>, <<1, 0>>, <<-2, -1>>, <<1, 2>>>>
    [] from = "Right" /\ to = "Spawn" ->
         <<<<0, 0>>, <<2, 0>>, <<-1, 0>>, <<2, 1>>, <<-1, -2>>>>
    [] from = "Right" /\ to = "Reverse" ->
         <<<<0, 0>>, <<-1, 0>>, <<2, 0>>, <<-1, 2>>, <<2, -1>>>>
    [] from = "Reverse" /\ to = "Right" ->
         <<<<0, 0>>, <<1, 0>>, <<-2, 0>>, <<1, -2>>, <<-2, 1>>>>
    [] from = "Reverse" /\ to = "Left" ->
         <<<<0, 0>>, <<2, 0>>, <<-1, 0>>, <<2, 1>>, <<-1, -2>>>>
    [] from = "Left" /\ to = "Reverse" ->
         <<<<0, 0>>, <<-2, 0>>, <<1, 0>>, <<-2, -1>>, <<1, 2>>>>
    [] from = "Left" /\ to = "Spawn" ->
         <<<<0, 0>>, <<1, 0>>, <<-2, 0>>, <<1, -2>>, <<-2, 1>>>>
    [] from = "Spawn" /\ to = "Left" ->
         <<<<0, 0>>, <<-1, 0>>, <<2, 0>>, <<-1, 2>>, <<2, -1>>>>

\* C20: the kick candidates of a quarter turn of the I piece are those of the
\* standard SRS I table, and the O piece has the single candidate (0,0).
C20_IKickTable ==
  ev.op = "rotate" =>
    /\ ev.piece = "I" => ev.kicks = SRS_I(ev.from, ev.to)
    /\ ev.piece = "O" => ev.kicks = <<<<0, 0>>>>

\* The candidates of a kick list with both signs reversed.
Reflected(ks) == [i \in 1..Len(ks) |-> <<-ks[i][1], -ks[i][2]>>]

\* C21: for every piece but O, the kick candidates of the turn back (b -> a)
\* are those of the turn a -> b with both signs reversed; J 0->R is
\* (0,0),(-1,0),(-1,1),(0,-2),(-1,-2) and I 0->R is
\* (0,0),(-2,0),(1,0),(-2,-1),(1,2).
C21_KickRoundTrip ==
  (ev.op = "rotate" /\ ev.piece # "O") =>
    /\ kicks(ev.piece, ev.to, ev.from) = Reflected(ev.kicks)
    /\ Len(ev.kicks) = 5
    /\ (ev.piece = "J" /\ ev.from = "Spawn" /\ ev.to = "Right") =>
         ev.kicks = <<<<0, 0>>, <<-1, 0>>, <<-1, 1>>, <<0, -2>>, <<-1, -2>>>>
    /\ (ev.piece = "I" /\ ev.from = "Spawn" /\ ev.to = "Right") =>
         ev.kicks = <<<<0, 0>>, <<-2, 0>>, <<1, 0>>, <<-2, -1>>, <<1, 2>>>>

\* The I piece turned to Left and turning back to Spawn.
C21_Witness ==
  /\ ev.op = "rotate" /\ ev.piece = "I" /\ ev.from = "Left" /\ ev.to = "Spawn"
  /\ ev.kicks = <<<<0, 0>>, <<1, 0>>, <<2, 0>>, <<1, -2>>, <<2, -1>>>>
  /\ kicks("I", "Spawn", "Left") = Reflected(ev.kicks)

(***************************************************************************)
(* The shape tables, read off the active pieces under SpecPiece.           *)
(***************************************************************************)
\* The elements of a sequence.
Range(s) == {s[i] : i \in DOMAIN s}

\* The stated image of a spawn cell in an orientation.
StatedTurn(c, rotation) ==
  CASE rotation = "Spawn" -> c
    [] rotation = "Right" -> <<c[2], -c[1]>>
    [] rotation = "Reverse" -> <<-c[1], -c[2]>>
    [] rotation = "Left" -> <<-c[2], c[1]>>

\* C22: every (piece, orientation) has exactly 4 pairwise distinct cells; the
\* Spawn cells of S are (-1,0),(0,0),(0,1),(1,1) and of Z (-1,1),(0,1),(0,0),
\* (1,0); for J, L, S, Z, T the Right, Reverse and Left cells are the Spawn
\* cells mapped by (x,y)->(y,-x), (x,y)->(-x,-y) and (x,y)->(-y,x).
C22_ShapeTables ==
  \A i \in {0, 1} :
    LET a == players[i].active
        shape == shape_blocks(a.piece, a.rotation)
    IN /\ Len(shape) = 4
       /\ Cardinality(Range(shape)) = 4
       /\ (a.piece = "S" /\ a.rotation = "Spawn") =>
            Range(shape) = {<<-1, 0>>, <<0, 0>>, <<0, 1>>, <<1, 1>>}
       /\ (a.piece = "Z" /\ a.rotation = "Spawn") =>
            Range(shape) = {<<-1, 1>>, <<0, 1>>, <<0, 0>>, <<1, 0>>}
       /\ a.piece \in {"J", "L", "S", "Z", "T"} =>
            Range(shape) =
              {StatedTurn(c, a.rotation) : c \in Range(shape_blocks(a.piece, "Spawn"))}

\* An S piece turned to Left: its cells are (0,-1),(0,0),(-1,0),(-1,1).
C22_Witness ==
  /\ ev.op = "rotate"
  /\ players[ev.idx].active.piece = "S" /\ players[ev.idx].active.rotation = "Left"
  /\ Range(blocks(players[ev.idx].active)) =
       {<<0, -1>>, <<0, 0>>, <<-1, 0>>, <<-1, 1>>}

(***************************************************************************)
(* The bag randomizers, under SpecBag.                                     *)
(***************************************************************************)
\* The players that draw from a bag.
BagPlayers == {i \in {0, 1} : players[i].randomizer.kind \in {"SevenBag", "LoveTris"}}

\* The draws 7k+1 .. 7k+7 of d that have been made.
Group(d, k) == SubSeq(d, 7 * k + 1, Min(7 * k + 7, Len(d)))

NoDuplicate(s) == Cardinality(Range(s)) = Len(s)

\* C23: counting from the creation of a SevenBag or LoveTris randomizer, the
\* draws 7k+1 .. 7k+7 are a permutation of the 7 pieces for every k (no piece
\* twice among those made so far, all 7 once the group is complete), and the
\* remaining bag holds no piece twice.
C23_BagDraws ==
  \A i \in BagPlayers :
    /\ \A k \in 0..(Len(ev.drawn[i]) \div 7) :
         /\ NoDuplicate(Group(ev.drawn[i], k))
         /\ Len(Group(ev.drawn[i], k)) = 7 => Range(Group(ev.drawn[i], k)) = Pieces
    /\ NoDuplicate(players[i].randomizer.bag)

\* A LoveTris randomizer has returned two complete groups, the first of them
\* not in the order a SevenBag pops its shuffle.
C23_Witness ==
  /\ players[0].randomizer.kind = "LoveTris"
  /\ Len(ev.drawn[0]) >= 14
  /\ \A p \in BagPerms : \E n \in 1..7 : ev.drawn[0][n] # p[8 - n]
  /\ Range(Group(ev.drawn[0], 1)) = Pieces

(***************************************************************************)
(* Single frames, under SpecFrame.                                         *)
(***************************************************************************)
\* C24: a tick with dt = 0 never locks a piece, never rotates it, never
\* holds, never lets it fall and changes neither the board, the queue, the
\* pending garbage nor the combo, whatever the input frame (it only counts
\* key presses, updates the controllers and makes the one initial shift).
C24_ZeroTick ==
  (ev.op = "frame" /\ ev.dt = 0) =>
    /\ ev.log.locks = <<>>
    /\ ev.log.rotated = {}
    /\ ev.log.held = {}
    /\ \A i \in {0, 1} :
         /\ ev.log.falls[i] = 0
         /\ players[i].board = ev.pre.players[i].board
         /\ players[i].queue = ev.pre.players[i].queue
         /\ players[i].hold = ev.pre.players[i].hold
         /\ players[i].pending_garbage = ev.pre.players[i].pending_garbage
         /\ players[i].combo = ev.pre.players[i].combo
         /\ players[i].active.rotation = ev.pre.players[i].active.rotation
         /\ players[i].active.y = ev.pre.players[i].active.y
         /\ fall_accum[i] = ev.pre.fall_accum[i]

(***************************************************************************)
(* Kick resolution, under SpecPiece.                                       *)
(***************************************************************************)
\* Piece a in orientation to, moved by kick candidate c.
Kicked(a, to, c) == [a EXCEPT !.rotation = to, !.x = @ + c[1], !.y = @ + c[2]]

\* The stated outcome of a quarter turn of piece a on a board: the first
\* candidate in table order that does not collide, if there is one.
StatedQuarter(cells, a, cw) ==
  LET to == IF cw THEN rotate_cw(a.rotation) ELSE rotate_ccw(a.rotation)
      ks == kicks(a.piece, a.rotation, to)
      fits == {k \in 1..Len(ks) : ~collision(cells, Kicked(a, to, ks[k]))}
  IN IF fits = {} THEN [ok |-> FALSE, a |-> a]
     ELSE [ok |-> TRUE,
           a |-> Kicked(a, to, ks[CHOOSE k \in fits : \A j \in fits : k <= j])]

\* C25: a 90-degree rotation takes the target orientation at the offset of
\* the first kick candidate, in table order, that does not collide; if every
\* candidate collides it returns false and leaves the piece and
\* last_action_was_t_spin as they were.
C25_KickResolution ==
  (ev.op = "rotate" /\ ~ev.double) =>
    LET p == ev.pre[ev.idx]
        q == players[ev.idx]
        st == StatedQuarter(p.board, p.active, ev.cw)
    IN /\ ev.ok = st.ok
       /\ q.active = st.a
       /\ ~st.ok => q.last_action_was_t_spin = p.last_action_was_t_spin
       /\ players = [ev.pre EXCEPT ![ev.idx].active = q.active,
                                   ![ev.idx].last_action_was_t_spin =
                                      q.last_action_was_t_spin]

\* A T on top of a locked T turns clockwise: (0,0) collides, the second
\* candidate (-1,0) is taken.
C25_Witness ==
  /\ ev.op = "rotate" /\ ~ev.double /\ ev.ok /\ ev.piece = "T"
  /\ collision(ev.pre[ev.idx].board,
               Kicked(ev.pre[ev.idx].active, ev.to, ev.kicks[1]))
  /\ players[ev.idx].active = Kicked(ev.pre[ev.idx].active, ev.to, ev.kicks[2])

\* An O on top of a locked O turns counter-clockwise: its only candidate
\* collides, nothing changes.
C25_WitnessBlocked ==
  /\ ev.op = "rotate" /\ ~ev.double /\ ~ev.ok /\ ev.piece = "O"
  /\ players = ev.pre

\* C26: a 180-degree rotation is two quarter turns in the same direction,
\* each with its own kicks: if the first succeeds and the second fails the
\* piece stays where the first left it and the rotation returns true (it
\* counts for the lock-delay reset); if both fail the piece is unchanged and
\* it returns false.
C26_HalfTurn ==
  (ev.op = "rotate" /\ ev.double) =>
    LET p == ev.pre[ev.idx]
        q == players[ev.idx]
        first == StatedQuarter(p.board, p.active, ev.cw)
        second == StatedQuarter(p.board, first.a, ev.cw)
    IN /\ q.active = second.a
       /\ ev.ok = (first.ok \/ second.ok)
       /\ (first.ok /\ ~second.ok) => (q.active = first.a /\ ev.ok)
       /\ (~first.ok /\ ~second.ok) => (q.active = p.active /\ ~ev.ok)

\* An O on top of a locked O makes a clockwise half turn: the first quarter
\* turn succeeds, the second collides, the O stays in orientation Right.
C26_Witness ==
  /\ ev.op = "rotate" /\ ev.double /\ ev.ok /\ ev.piece = "O"
  /\ ev.from = "Spawn" /\ players[ev.idx].active.rotation = "Right"
  /\ ~StatedQuarter(ev.pre[ev.idx].board, players[ev.idx].active, ev.cw).ok


(***************************************************************************)
(* DAS and ARR (SpecFrame).                                                *)
(***************************************************************************)
FrameDir == input_dir(ev.input)

\* The sub-tick of player 0 reached the DAS/ARR section.
DasStage == ev.op = "frame" /\ 0 \in ev.log.das

Repeats(s) == \A i \in 1..Len(s) : s[i] = "repeat"

\* C27 as stated: in every tick of a running game in which the held
\* direction becomes a non-zero direction that the frame before did not
\* hold, player 0 makes exactly one initial shift attempt, before any
\* auto-repeat.  (Violated: a hard drop in the same frame ends the sub-tick
\* before the DAS/ARR section.)
C27_EveryTick ==
  (/\ ev.op = "frame"
   /\ \A i \in {0, 1} : ~ev.pre.players[i].topped_out
   /\ FrameDir # 0
   /\ FrameDir # input_dir(ev.pre.last_inputs[0]))
  => /\ ev.log.shifts[0] # <<>>
     /\ Head(ev.log.shifts[0]) = "initial"
     /\ Repeats(Tail(ev.log.shifts[0]))

\* C27 (amended): in a sub-tick that reaches the DAS/ARR section, a held
\* direction that differs from the controller's last_dir and is non-zero
\* gets exactly one initial shift attempt, before any auto-repeat, and the
\* timers count from 0 (das_timer = dt, arr_timer at most dt and 0 below
\* DAS); with an unchanged direction there is no initial attempt; an
\* auto-repeat is attempted only when the time the direction has been held
\* has reached DAS, and das_timer is that time; with no direction or both
\* directions held no shift is attempted and das_timer, arr_timer and
\* shifted_initial are reset.  A sub-tick that does not reach the section
\* attempts no shift and leaves the controller's DAS/ARR state alone.
C27_DasArr ==
  ev.op = "frame" =>
    LET c0 == ev.pre.controllers[0]
        c1 == controllers[0]
        s == ev.log.shifts[0]
    IN
    IF ~DasStage THEN
      /\ s = <<>>
      /\ c1.das_timer = c0.das_timer /\ c1.arr_timer = c0.arr_timer
      /\ c1.shifted_initial = c0.shifted_initial /\ c1.last_dir = c0.last_dir
    ELSE IF FrameDir = 0 THEN
      /\ s = <<>>
      /\ c1.das_timer = 0 /\ c1.arr_timer = 0
      /\ ~c1.shifted_initial /\ c1.last_dir = 0
    ELSE
      /\ c1.last_dir = FrameDir /\ c1.shifted_initial
      /\ c1.das_timer = ev.held
      /\ IF FrameDir # c0.last_dir
         THEN /\ s # <<>> /\ Head(s) = "initial" /\ Repeats(Tail(s))
              /\ c1.das_timer = ev.dt
              /\ c1.arr_timer >= 0 /\ c1.arr_timer <= ev.dt
              /\ ev.dt < settings.das => c1.arr_timer = 0
         ELSE Repeats(s)
      /\ (\E i \in 1..Len(s) : s[i] = "repeat") => ev.held >= settings.das

\* A tick that turns the direction to the left for less than DAS: one
\* initial attempt and no auto-repeat.
C27_Witness ==
  /\ DasStage
  /\ FrameDir = -1 /\ ev.pre.controllers[0].last_dir # -1
  /\ ev.dt = 100
  /\ ev.log.shifts[0] = <<"initial">>

\* A later tick with the same direction held, in which the auto-repeat runs.
C27_WitnessRepeat ==
  /\ DasStage
  /\ FrameDir = -1 /\ ev.pre.controllers[0].last_dir = -1
  /\ ev.held = 200
  /\ Len(ev.log.shifts[0]) > 1 /\ Repeats(ev.log.shifts[0])

\* A tick with no direction held after one with a direction held.
C27_WitnessReset ==
  /\ DasStage
  /\ FrameDir = 0 /\ ev.pre.controllers[0].last_dir # 0
  /\ ev.pre.controllers[0].das_timer > 0


(***************************************************************************)
(* Gravity (SpecFrame).  Accumulators are in tenths of a millisecond.      *)
(***************************************************************************)
FrameSpeed10 ==
  IF ev.input.soft_drop THEN soft_drop_factor10(settings.soft_drop) ELSE 10

\* C28: the gravity section of a sub-tick starts from the accumulator plus
\* dt times the drop speed; the piece ends as many rows lower as there were
\* successful falls and the accumulator is lowered by exactly gravity_ms for
\* each of them (a blocked fall subtracts nothing); the accumulator is never
\* negative; and at the end of a sub-tick that locked no piece the
\* accumulator is below gravity_ms unless a fall was blocked, in which case
\* the piece rests on the ground.  A sub-tick that does not reach the
\* gravity section applies no fall.
C28_Gravity ==
  /\ \A i \in {0, 1} : fall_accum[i] >= 0
  /\ ev.op = "frame" =>
       LET g == Head(ev.log.grav[0])
           n == ev.log.falls[0]
       IN
       IF ev.log.grav[0] = <<>> THEN n = 0 /\ 0 \notin ev.log.blocked
       ELSE
         /\ g.acc0 = ev.pre.fall_accum[0] + ev.dt * FrameSpeed10
         /\ g.y1 = g.y0 - n
         /\ g.acc1 = g.acc0 - n * GRAVITY_MS * 10
         /\ g.acc1 >= 0
         /\ 0 \in ev.log.blocked => g.acc1 >= GRAVITY_MS * 10
         /\ ev.log.locks = <<>> =>
              /\ fall_accum[0] = g.acc1
              /\ players[0].active.y = g.y1
              /\ \/ fall_accum[0] < GRAVITY_MS * 10
                 \/ /\ 0 \in ev.log.blocked
                    /\ collision(players[0].board,
                                 [players[0].active EXCEPT !.y = @ - 1])

\* A soft-dropped second: two falls, the accumulator back at 0.
C28_Witness ==
  /\ ev.op = "frame" /\ ev.log.grav[0] # <<>>
  /\ ev.log.falls[0] = 2
  /\ Head(ev.log.grav[0]).acc0 = 2 * GRAVITY_MS * 10
  /\ fall_accum[0] = 0
  /\ ev.log.locks = <<>>

\* A blocked fall in a sub-tick that locks nothing: the accumulator stays at
\* or above gravity_ms.
C28_WitnessBlocked ==
  /\ ev.op = "frame" /\ ev.log.grav[0] # <<>>
  /\ 0 \in ev.log.blocked
  /\ ev.log.locks = <<>>
  /\ fall_accum[0] >= GRAVITY_MS * 10


(***************************************************************************)
(* The look-ahead queue (Spec).                                            *)
(***************************************************************************)
\* C29: a queue holds 5 pieces after construction; an operation that calls
\* refill_queue for a player leaves that player's queue at exactly 6 pieces
\* and any other operation leaves its length as it was (so it is 5 until the
\* first refill and 6 from then on); every lock (spawn), every hold from an
\* empty slot, every apply_tbp_move that places its piece and every
\* set_randomizer of a player refills; and the queue is never empty when
\* its head is removed.
C29_QueueLength ==
  /\ ev.op = "new" => \A i \in {0, 1} : Len(players[i].queue) = QUEUE_LEN - 1
  /\ \A i \in {0, 1} :
       /\ Len(players[i].queue) \in {QUEUE_LEN - 1, QUEUE_LEN}
       /\ ev.op # "new" =>
            /\ IF ev.refills[i] > 0 THEN Len(players[i].queue) = QUEUE_LEN
               ELSE Len(players[i].queue) = ev.queue0[i]
            /\ \A k \in 1..Len(ev.pops[i]) : ev.pops[i][k] >= 1
            /\ (\E k \in 1..Len(ev.locks) : ev.locks[k].idx = i) => ev.refills[i] > 0
            /\ (i \in ev.held /\ ev.hold0[i] = None) => ev.refills[i] > 0
            /\ (ev.op = "move" /\ ev.idx = i /\ ev.res = "ok") => ev.refills[i] > 0
            /\ (ev.op = "rand" /\ ev.idx = i) => ev.refills[i] > 0

\* A hold from an empty slot on a queue that had not been refilled: the
\* queue goes from 5 to 6 pieces.
C29_Witness ==
  /\ ev.op = "tick" /\ 0 \in ev.held /\ ev.hold0[0] = None
  /\ ev.queue0[0] = QUEUE_LEN - 1
  /\ ev.pops[0] = <<QUEUE_LEN - 1>>
  /\ Len(players[0].queue) = QUEUE_LEN

\* An apply_tbp_move that fails before any refill leaves the queue at 5.
C29_WitnessUnfilled ==
  /\ ev.op = "move" /\ ev.res # "ok" /\ ev.idx \in {0, 1}
  /\ ev.refills[ev.idx] = 0
  /\ Len(players[ev.idx].queue) = QUEUE_LEN - 1

\* A set_randomizer: the queue is emptied, refilled, popped and refilled.
C29_WitnessRandomizer ==
  /\ ev.op = "rand" /\ ev.idx \in {0, 1}
  /\ ev.refills[ev.idx] = 2
  /\ Len(players[ev.idx].queue) = QUEUE_LEN


(***************************************************************************)
(* Line clears (SpecClear).                                                *)
(***************************************************************************)
\* The board cells without the rows R: the other rows in their order, from
\* row 0 up, and empty rows above them.
WithoutRows(cells, R) ==
  LET kept == Rows \ R IN
  [r \in Rows |->
     IF r < Cardinality(kept)
     THEN cells[CHOOSE k \in kept : Cardinality({j \in kept : j < k}) = r]
     ELSE EmptyRow]

\* C30: after clear_lines no visible row is full; the board is the board
\* before without `count` of its rows, all of them full: the rows that stay
\* keep their contents and their order, buffer rows included, and move down;
\* and the topmost `count` rows are empty.
C30_ClearLines ==
  ev.op = "clear" =>
    LET cells == players[0].board IN
    /\ \A y \in 0..(VISIBLE_HEIGHT - 1) : ~RowFull(cells[y])
    /\ \E R \in SUBSET {r \in Rows : RowFull(ev.cells0[r])} :
         /\ Cardinality(R) = ev.count
         /\ cells = WithoutRows(ev.cells0, R)
    /\ \A y \in (TOTAL_HEIGHT - ev.count)..(TOTAL_HEIGHT - 1) : cells[y] = EmptyRow

\* Two full rows on the floor under a row with a gap, and a full buffer row
\* that comes down into the visible rows and is removed too.
C30_Witness ==
  /\ ev.op = "clear" /\ ev.count = 3
  /\ RowFull(ev.cells0[0]) /\ RowFull(ev.cells0[1]) /\ ~RowFull(ev.cells0[2])
  /\ ev.cells0[2] # EmptyRow
  /\ RowFull(ev.cells0[20]) /\ ev.cells0[21] # EmptyRow
  /\ players[0].board[0] = ev.cells0[2]
  /\ players[0].board[18] = ev.cells0[21]

\* A full buffer row that stays in the buffer is kept.
C30_WitnessBuffer ==
  /\ ev.op = "clear" /\ ev.count = 1
  /\ RowFull(ev.cells0[21]) /\ RowFull(players[0].board[20])


(***************************************************************************)
(* Garbage injection (SpecLock).                                           *)
(***************************************************************************)
\* The garbage rows the lock pushed into the locking player's board.
Spilled == IF ev.cleared = 0 THEN LockPre.pending_garbage - LockCancelled ELSE 0

AboveVisible(cells) ==
  \E y \in VISIBLE_HEIGHT..(TOTAL_HEIGHT - 1) : \E x \in Cols : cells[y][x] # 0

\* C31 as stated: add_garbage(n) with n > 0 moves every existing row up by
\* n.  (Violated: a row within n rows of the top of the 40-row board is
\* dropped.)
C31_EveryRowMoves ==
  (ev.op = "lock" /\ Spilled > 0) =>
    \A r \in Rows :
      LockPre.board[r] # EmptyRow =>
        /\ r + Spilled \in Rows
        /\ players[ev.idx].board[r + Spilled] = LockPre.board[r]

\* C31 (amended): add_garbage(n) with n > 0 moves the rows below row 40 - n
\* up by n and drops the n rows above them, fills rows 0..n-1 with garbage
\* rows (value 8) that have their single empty cell in one column, and the
\* defender is marked topped out exactly when some non-empty cell lies at
\* row 20 or above afterwards; add_garbage(0) changes nothing.
C31_Garbage ==
  ev.op = "lock" =>
    LET cells == players[ev.idx].board IN
    IF Spilled = 0
    THEN /\ cells = LockPre.board
         /\ players[ev.idx].topped_out = LockPre.topped_out
    ELSE /\ \E hole \in Cols :
              /\ \A y \in Rows : y < Spilled =>
                   \A x \in Cols : cells[y][x] = IF x = hole THEN 0 ELSE 8
              /\ \A y \in Rows : y >= Spilled => cells[y] = LockPre.board[y - Spilled]
         /\ players[ev.idx].topped_out = (LockPre.topped_out \/ AboveVisible(cells))

\* One garbage row under a stack that reached row 19: the stack's top is now
\* in row 20 and the defender is topped out.
C31_Witness ==
  /\ ev.op = "lock" /\ Spilled = 1
  /\ LockPre.board = TallBoard
  /\ ~LockPre.topped_out /\ players[ev.idx].topped_out
  /\ players[ev.idx].board[20] = TallBoard[19]

\* Two garbage rows under blocks in rows 38 and 39: the blocks are gone and
\* the defender is not topped out.
C31_WitnessDropped ==
  /\ ev.op = "lock" /\ Spilled = 2
  /\ LockPre.board = CeilingBoard
  /\ ~players[ev.idx].topped_out
  /\ ~AboveVisible(players[ev.idx].board)

\* Garbage that stays below row 20 does not top the defender out.
C31_WitnessBelow ==
  /\ ev.op = "lock" /\ Spilled = 12
  /\ LockPre.board = FloorBoard
  /\ ~players[ev.idx].topped_out


(***************************************************************************)
(* Lock liveness (SpecIdle).                                               *)
(***************************************************************************)
AnyToppedOut == players[0].topped_out \/ players[1].topped_out

\* The tick that led here locked a piece of player 0.
LockedNow == ev.op = "idle" /\ stats[0].pieces > ev.pieces0

\* C32: while ticks of positive length keep arriving with no key pressed,
\* player 0's piece is eventually locked, again and again (stats.pieces of
\* player 0 keeps increasing), until a player is topped out.
C32_LockLiveness == []<>(LockedNow \/ AnyToppedOut)

\* Idle ticks have locked three pieces and the game goes on.
C32_Witness ==
  /\ ev.op = "idle" /\ stats[0].pieces = 3 /\ ~AnyToppedOut

\* The idle game ends topped out, before the clock runs out.
C32_WitnessToppedOut ==
  /\ ev.op = "idle" /\ AnyToppedOut /\ stats[0].time_ms < MaxIdleMs
  /\ stats[0].pieces > 3


(***************************************************************************)
(* Failed moves (Spec).                                                    *)
(***************************************************************************)
\* C33: an apply_tbp_move that returns an error leaves the player's active
\* piece (piece, x, y, rotation), hold slot, held_on_turn flag, queue and
\* board as they were.
C33_FailedMoveUnchanged ==
  [][(ev'.op = "move" /\ ev'.res # "ok" /\ ev'.idx \in {0, 1}) =>
       LET p == players[ev'.idx]
           q == players'[ev'.idx]
       IN /\ q.active.piece = p.active.piece
          /\ q.active.x = p.active.x
          /\ q.active.y = p.active.y
          /\ q.active.rotation = p.active.rotation
          /\ q.hold = p.hold
          /\ q.held_on_turn = p.held_on_turn
          /\ q.queue = p.queue
          /\ q.board = p.board]_vars


(***************************************************************************)
(* The bot's view of the queue (SpecMove).                                 *)
(***************************************************************************)
\* The list start(idx) reports: the active piece, then the queue.
StartQueue(p) == <<p.active.piece>> \o p.queue

\* C34: a successful apply_tbp_move draws exactly one piece from the
\* player's randomizer, the returned new_queue_piece is that piece, and the
\* list start(idx) reported before the move, without the pieces the move
\* took from its front and with new_queue_piece appended, is the list
\* start(idx) reports after the move.
C34_QueueSync ==
  [][(ev'.op = "move" /\ ev'.res = "ok") =>
       LET i == ev'.idx
           taken == Len(ev'.pops[i])
       IN /\ ev'.drawn[i] = <<ev'.out.new_queue_piece>>
          /\ StartQueue(players'[i]) =
               SubSeq(StartQueue(players[i]), taken + 1, Len(StartQueue(players[i])))
               \o <<ev'.out.new_queue_piece>>]_vars


(***************************************************************************)
(* Locks without a clear (SpecMove, Spec).                                 *)
(***************************************************************************)
\* C35: an operation in which one piece locks and clears no line leaves
\* stats.attack and stats.lines_sent of the locking player and the
\* opponent's pending_garbage as they were.
C35_NoClearNoAttack ==
  [][(Len(ev'.locks) = 1 /\ ev'.locks[1].cleared = 0) =>
       LET i == ev'.locks[1].idx IN
       /\ stats'[i].attack = stats[i].attack
       /\ stats'[i].lines_sent = stats[i].lines_sent
       /\ players'[Opp(i)].pending_garbage = players[Opp(i)].pending_garbage]_vars


(***************************************************************************)
(* The cells a lock writes (Spec, SpecMove).                               *)
(***************************************************************************)
\* The four cells of the piece a lock record names.
LockCells(l) ==
  {<<l.at.x + blocks(l.at)[k][1], l.at.y + blocks(l.at)[k][2]>> : k \in 1..4}

\* C36: the four cells a lock writes are in bounds and were empty just
\* before the write (checked for the operations in which one piece locks:
\* the board before the operation is the board before the write).
C36_LockWritesEmptyCells ==
  [][Len(ev'.locks) = 1 =>
       LET l == ev'.locks[1] IN
       \A c \in LockCells(l) :
         /\ InBounds(c[1], c[2])
         /\ players[l.idx].board[c[2]][c[1]] = 0]_vars



(***************************************************************************)
(* Garbage conservation (Spec, SpecMove).                                  *)
(***************************************************************************)
\* What player i still owes the opponent is part of what it sent, and what
\* it sent is part of what it attacked with.
GarbageBounded ==
  \A i \in {0, 1} :
    /\ players[Opp(i)].pending_garbage <= stats[i].lines_sent
    /\ stats[i].lines_sent <= stats[i].attack

\* C37: in every reachable state, for each player i, the opponent's
\* pending_garbage <= stats.lines_sent[i] <= stats.attack[i]; pending garbage
\* grows only by what the opponent sends in the same step, and shrinks only
\* in a step in which its owner locks a piece (cancellation or spill).
C37_GarbageConservation ==
  /\ []GarbageBounded
  /\ [][\A i \in {0, 1} :
          LET grown == players'[i].pending_garbage - players[i].pending_garbage
              sent == stats'[Opp(i)].lines_sent - stats[Opp(i)].lines_sent
          IN /\ grown > 0 => grown <= sent
             /\ grown < 0 => stats'[i].pieces > stats[i].pieces]_vars

\* Garbage is pending against a player.
C37_Witness ==
  \E i \in {0, 1} :
    /\ players[Opp(i)].pending_garbage > 0
    /\ stats[i].lines_sent > 0

\* A player has spilled or cancelled what was sent to it.
C37_WitnessRemoved ==
  \E i \in {0, 1} : players[Opp(i)].pending_garbage < stats[i].lines_sent

\* A player has sent less than it attacked with: it cancelled garbage.
C37_WitnessCancelled ==
  \E i \in {0, 1} :
    /\ 0 < stats[i].lines_sent
    /\ stats[i].lines_sent < stats[i].attack



(***************************************************************************)
(* The protocol anchor of a placed piece (SpecMove).                       *)
(***************************************************************************)
\* The active piece a move asks for, as apply_tbp_move sets it.
Requested(piece, mv) ==
  [NewActivePiece(piece) EXCEPT
     !.rotation = from_tbp_orientation(mv.orientation),
     !.x = placement_x(piece, from_tbp_orientation(mv.orientation), mv.x),
     !.y = mv.y]

\* C38: when the placement a successful apply_move asks for does not
\* collide, the four cells the lock writes include the cell (x, y) of the
\* move's location.
C38_AnchorWritten ==
  [][(/\ ev'.op = "move" /\ ev'.res = "ok" /\ Len(ev'.locks) = 1
      /\ ~collision(players[ev'.idx].board, Requested(ev'.mv.piece, ev'.mv)))
       => <<ev'.mv.x, ev'.mv.y>> \in LockCells(ev'.locks[1])]_vars



(***************************************************************************)
(* The hold slot across a bot move (SpecMove).                             *)
(***************************************************************************)
\* C39: after a successful apply_move the piece that was in the hold slot
\* before the call is still in the hold slot or is the piece just placed.
C39_HeldPieceKept ==
  (ev.op = "move" /\ ev.res = "ok" /\ ev.hold0[ev.idx] # None) =>
     \/ players[ev.idx].hold = ev.hold0[ev.idx]
     \/ ev.hold0[ev.idx] = ev.mv.piece



(***************************************************************************)
(* The auto-repeat rate (SpecStall).                                       *)
(***************************************************************************)
\* C40: while one direction has been held for a total time T since it
\* changed, the number of successful auto-repeat shifts (the initial shift
\* not counted) is at most floor(max(0, T - DAS) / max(ARR, 1)).
C40_RepeatRate ==
  ev.repeated <= Max(0, ev.held_ms - settings.das) \div Max(settings.arr, 1)

=============================================================================
